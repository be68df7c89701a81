------------------------------ MODULE UploadsProofs ------------------------------
(***************************************************************************)
(* Proofs about Uploads, for any number of creations, assets, lanes and    *)
(* retries and of account changes.                                         *)
(***************************************************************************)
EXTENDS Uploads, TLAPS

Positions == Over \cup
  {"prepare", "read", "url", "transfer", "track", "ask", "capabilities", "lane", "cooling",
   "reserve", "full", "put", "finalize", "bind"}
TaskRecords == [pc : Positions, session : Nat, asset : 1 .. AssetCount, tries : Nat]
Caches == [seen : Nat, capability : {"unknown", "yes", "no"}, learned : Nat,
           blocked : BOOLEAN, refused : Nat]

Types ==
  /\ session \in Nat /\ cache \in Caches
  /\ task \in [Tasks -> TaskRecords]

(* The steps change one task, in one of three ways *)
LEMMA GotoTask ==
  ASSUME Types, NEW t \in Tasks, NEW position \in Positions, Goto(t, position)
  PROVE  /\ task' \in [Tasks -> TaskRecords]
         /\ task'[t] = [task[t] EXCEPT !.pc = position, !.tries = 1]
         /\ task'[t].pc = position /\ task'[t].session = task[t].session
         /\ task'[t].asset = task[t].asset
         /\ \A u \in Tasks \ {t} : task'[u] = task[u]
<1>1. task[t] \in TaskRecords
  BY DEF Types
<1>2. task' = [task EXCEPT ![t] = [task[t] EXCEPT !.pc = position, !.tries = 1]]
  BY DEF Goto, Types
<1>3. [task[t] EXCEPT !.pc = position, !.tries = 1] \in TaskRecords
  BY <1>1 DEF TaskRecords
<1>4. QED BY <1>1, <1>2, <1>3 DEF Types, TaskRecords

LEMMA AgainTask ==
  ASSUME Types, NEW t \in Tasks, task' = [task EXCEPT ![t].tries = @ + 1]
  PROVE  /\ task' \in [Tasks -> TaskRecords]
         /\ task'[t].pc = task[t].pc /\ task'[t].session = task[t].session
         /\ task'[t].asset = task[t].asset
         /\ \A u \in Tasks \ {t} : task'[u] = task[u]
<1>1. task[t] \in TaskRecords
  BY DEF Types
<1>2. [task[t] EXCEPT !.tries = @ + 1] \in TaskRecords
  BY <1>1 DEF TaskRecords
<1>3. QED BY <1>1, <1>2 DEF Types, TaskRecords

LEMMA NextAssetTask ==
  ASSUME ConstantsAreSound, Types, NEW t \in Tasks, NextAsset(t)
  PROVE  /\ task' \in [Tasks -> TaskRecords]
         /\ task'[t].session = task[t].session
         /\ \/ /\ task[t].asset = AssetCount /\ task'[t].pc = "track"
               /\ task'[t].asset = task[t].asset
            \/ task[t].asset # AssetCount /\ task'[t].pc = "read"
               /\ task'[t].asset = task[t].asset + 1
         /\ \A u \in Tasks \ {t} : task'[u] = task[u]
<1>1. task[t] \in TaskRecords /\ AssetCount \in Nat
  BY DEF Types, ConstantsAreSound
<1>2. task[t].asset \in 1 .. AssetCount
  BY <1>1 DEF TaskRecords
<1> DEFINE last == task[t].asset = AssetCount
<1> DEFINE n == IF last THEN task[t].asset ELSE task[t].asset + 1
<1> DEFINE p == IF last THEN "track" ELSE "read"
<1>3. task' = [task EXCEPT ![t] = [task[t] EXCEPT !.pc = p, !.asset = n, !.tries = 1]]
  BY DEF NextAsset, Types
<1>4. n \in 1 .. AssetCount /\ p \in Positions
  BY <1>1, <1>2 DEF Positions
<1>5. [task[t] EXCEPT !.pc = p, !.asset = n, !.tries = 1] \in TaskRecords
  BY <1>1, <1>4 DEF TaskRecords
<1>6. QED BY <1>1, <1>3, <1>5 DEF Types, TaskRecords

(***************************************************************************)
(* What a step does to the task that takes it.                             *)
(***************************************************************************)
Complete == {"track", "tracked"}

Started(t) ==
  /\ task[t].pc = "idle" /\ task'[t].pc \in {"prepare", "lane"}
  /\ t \notin Creations => task'[t].pc = "lane"
  /\ task'[t].session = session /\ task'[t].asset = task[t].asset
  /\ received' = received

Kept(t) ==
  /\ task[t].pc # "idle" /\ task'[t].pc # "idle"
  /\ task'[t].pc \in Complete => task[t].pc \in Complete
  /\ task'[t].session = task[t].session /\ task'[t].asset = task[t].asset
  /\ received' = received

Advanced(t) ==
  /\ Current(t) /\ Receive(t)
  /\ task[t].pc \in {"transfer", "bind"} /\ task'[t].session = task[t].session
  /\ \/ task[t].asset = AssetCount /\ task'[t].pc = "track"
        /\ task'[t].asset = task[t].asset
     \/ task[t].asset # AssetCount /\ task'[t].pc = "read"
        /\ task'[t].asset = task[t].asset + 1

(* The positions in which a creation has looked at the cache in its session *)
Looked == {"capabilities", "lane", "cooling", "reserve", "full", "put", "finalize"}

(* It comes to them from one another, or by looking; some are a creation's alone *)
Route(t) ==
  /\ task'[t].pc \in Looked /\ t \in Creations =>
       task[t].pc \in Looked \cup {"ask"} /\ Current(t) /\ task'[t].session = task[t].session
  /\ task'[t].pc \in {"ask", "capabilities", "full"} =>
       t \in Creations \/ task[t].pc = "ask"

Others(t) ==
  /\ task' \in [Tasks -> TaskRecords]
  /\ \A u \in Tasks \ {t} : task'[u] = task[u]

Taken(t) == Others(t) /\ Route(t) /\ (Started(t) \/ Kept(t) \/ Advanced(t))

LEMMA GotoTaken ==
  ASSUME Types, NEW t \in Tasks, NEW position \in Positions \ {"idle"},
         task[t].pc # "idle", Goto(t, position), received' = received,
         position \in Complete => task[t].pc \in Complete,
         position \in Looked /\ t \in Creations =>
           task[t].pc \in Looked \cup {"ask"} /\ Current(t),
         position \in {"ask", "capabilities", "full"} =>
           t \in Creations \/ task[t].pc = "ask"
  PROVE  Taken(t)
<1>1. /\ task' \in [Tasks -> TaskRecords]
      /\ task'[t].pc = position /\ task'[t].session = task[t].session
      /\ task'[t].asset = task[t].asset
      /\ \A u \in Tasks \ {t} : task'[u] = task[u]
  BY GotoTask
<1>2. Kept(t)
  BY <1>1 DEF Kept
<1>3. Route(t)
  BY <1>1 DEF Route
<1>4. QED BY <1>1, <1>2, <1>3 DEF Taken, Others

LEMMA AgainTaken ==
  ASSUME Types, NEW t \in Tasks, task' = [task EXCEPT ![t].tries = @ + 1],
         task[t].pc \in {"reserve", "finalize", "bind", "transfer"}, Current(t),
         received' = received
  PROVE  Taken(t)
<1>1. /\ task' \in [Tasks -> TaskRecords]
      /\ task'[t].pc = task[t].pc /\ task'[t].session = task[t].session
      /\ task'[t].asset = task[t].asset
      /\ \A u \in Tasks \ {t} : task'[u] = task[u]
  BY AgainTask
<1>2. Kept(t)
  BY <1>1 DEF Kept
<1>3. Route(t)
  BY <1>1 DEF Route, Looked
<1>4. QED BY <1>1, <1>2, <1>3 DEF Taken, Others

LEMMA AdvanceTaken ==
  ASSUME ConstantsAreSound, Types, NEW t \in Tasks, NextAsset(t), Receive(t), Current(t),
         task[t].pc \in {"transfer", "bind"}
  PROVE  Taken(t)
<1>1. /\ task' \in [Tasks -> TaskRecords]
      /\ task'[t].session = task[t].session
      /\ \/ /\ task[t].asset = AssetCount /\ task'[t].pc = "track"
            /\ task'[t].asset = task[t].asset
         \/ task[t].asset # AssetCount /\ task'[t].pc = "read"
            /\ task'[t].asset = task[t].asset + 1
      /\ \A u \in Tasks \ {t} : task'[u] = task[u]
  BY NextAssetTask
<1>2. Advanced(t)
  BY <1>1 DEF Advanced
<1>3. Route(t)
  BY <1>1 DEF Route, Looked
<1>4. QED BY <1>1, <1>2, <1>3 DEF Taken, Others

LEMMA StartTaken ==
  ASSUME Types, NEW t \in Tasks, Start(t)
  PROVE  Taken(t)
<1> DEFINE p == IF t \in Creations THEN "prepare" ELSE "lane"
<1>1. task[t] \in TaskRecords /\ session \in Nat
  BY DEF Types
<1>2. task' = [task EXCEPT ![t] = [task[t] EXCEPT !.session = session, !.pc = p]]
  BY DEF Start, Types
<1>3. [task[t] EXCEPT !.session = session, !.pc = p] \in TaskRecords
  BY <1>1 DEF TaskRecords, Positions
<1>4. Others(t)
  BY <1>1, <1>2, <1>3 DEF Types, Others
<1>5. /\ task'[t].session = session /\ task'[t].pc = p
      /\ task'[t].asset = task[t].asset
  BY <1>1, <1>2 DEF Types, TaskRecords
<1>6. Started(t)
  BY <1>5 DEF Start, At, KeepWorld, Started
<1>7. Route(t)
  BY <1>5 DEF Route, Looked
<1>8. QED BY <1>4, <1>6, <1>7 DEF Taken

LEMMA StepTaken ==
  ASSUME ConstantsAreSound, Types, NEW t \in Tasks, Step(t)
  PROVE  Taken(t)
<1> USE DEF Runs, At, KeepWorld, Positions, Over, Complete, Looked, Fail, Fallback
<1>1. CASE Start(t) BY <1>1, StartTaken
<1>2. CASE Ended(t) BY <1>2, GotoTaken DEF Ended
<1>3. CASE Prepared(t) BY <1>3, GotoTaken DEF Prepared
<1>4. CASE ReadAsset(t)
  <2>1. CASE t \in Saves /\ Goto(t, "reserve")
    BY <1>4, <2>1, GotoTaken DEF ReadAsset, ConstantsAreSound
  <2>2. CASE t \in Creations /\ Goto(t, "ask")
    BY <1>4, <2>2, GotoTaken DEF ReadAsset
  <2>3. CASE Goto(t, "url")
    BY <1>4, <2>3, GotoTaken DEF ReadAsset
  <2>4. CASE Goto(t, "failed")
    BY <1>4, <2>4, GotoTaken DEF ReadAsset
  <2>5. QED BY <1>4, <2>1, <2>2, <2>3, <2>4 DEF ReadAsset, Tasks
<1>5. CASE GetUrl(t) BY <1>5, GotoTaken DEF GetUrl
<1>6. CASE Transfer(t)
  <2>1. CASE Receive(t) /\ NextAsset(t)
    BY <1>6, <2>1, AdvanceTaken DEF Transfer
  <2>2. CASE received' = received /\ Goto(t, "failed")
    BY <1>6, <2>2, GotoTaken DEF Transfer
  <2>3. CASE received' = received /\ task' = [task EXCEPT ![t].tries = @ + 1]
    BY <1>6, <2>3, AgainTaken DEF Transfer
  <2>4. QED BY <1>6, <2>1, <2>2, <2>3 DEF Transfer
<1>7. CASE Track(t) BY <1>7, GotoTaken DEF Track
<1>8. CASE Ask(t)
  <2>1. PICK p \in {"url", "lane", "capabilities"} : Goto(t, p)
    BY <1>8 DEF Ask
  <2>2. QED BY <1>8, <2>1, GotoTaken DEF Ask
<1>9. CASE Capabilities(t)
  <2>1. PICK p \in {"url", "lane", "failed"} : Goto(t, p)
    BY <1>9 DEF Capabilities
  <2>2. QED BY <1>9, <2>1, GotoTaken DEF Capabilities
<1>10. CASE TakeLane(t)
  <2>1. CASE t \in Saves /\ Goto(t, "read")
    BY <1>10, <2>1, GotoTaken DEF TakeLane
  <2>2. CASE Goto(t, "cooling")
    BY <1>10, <2>2, GotoTaken DEF TakeLane
  <2>3. QED BY <1>10, <2>1, <2>2 DEF TakeLane
<1>11. CASE Cooling(t)
  <2>1. PICK p \in {"url", "reserve"} : Goto(t, p)
    BY <1>11 DEF Cooling
  <2>2. QED BY <1>11, <2>1, GotoTaken DEF Cooling
<1>12. CASE Busy(t) BY <1>12, AgainTaken DEF Busy
<1>13. CASE Reserve(t)
  <2>1. PICK p \in {"bind", "done", "put", "full", "url", "failed"} :
          Goto(t, p) /\ (p = "full" => t \in Creations)
    BY <1>13 DEF Reserve
  <2>2. QED BY <1>13, <2>1, GotoTaken DEF Reserve
<1>14. CASE Full(t) BY <1>14, GotoTaken DEF Full
<1>15. CASE Put(t) BY <1>15, GotoTaken DEF Put
<1>16. CASE Finalize(t) BY <1>16, GotoTaken DEF Finalize
<1>17. CASE Bind(t)
  <2>1. CASE Receive(t) /\ NextAsset(t)
    BY <1>17, <2>1, AdvanceTaken DEF Bind
  <2>2. CASE received' = received /\ Goto(t, "failed")
    BY <1>17, <2>2, GotoTaken DEF Bind
  <2>3. QED BY <1>17, <2>1, <2>2 DEF Bind
<1>18. QED BY <1>1, <1>2, <1>3, <1>4, <1>5, <1>6, <1>7, <1>8, <1>9, <1>10, <1>11, <1>12,
              <1>13, <1>14, <1>15, <1>16, <1>17 DEF Step

(***************************************************************************)
(* What a step does to the cache.                                          *)
(***************************************************************************)
CacheTaken(t) ==
  \/ cache' = cache /\ (task[t].pc = "ask" => task'[t].pc = "failed")
  \/ cache' = Refreshed /\ Current(t)
  \/ \E answer \in {"yes", "no"} : Learn(answer) /\ task[t].pc = "capabilities" /\ Current(t)
  \/ /\ cache' = [cache EXCEPT !.blocked = TRUE, !.refused = task[t].session]
     /\ task[t].pc = "full" /\ Current(t)

LEMMA StepCache ==
  ASSUME Types, NEW t \in Tasks, Step(t)
  PROVE  CacheTaken(t) /\ session' = session
<1> USE DEF Runs, At, KeepWorld, Fail, Fallback, CacheTaken
<1>1. CASE Ask(t) BY <1>1 DEF Ask
<1>2. CASE Capabilities(t) BY <1>2 DEF Capabilities
<1>3. CASE Cooling(t) BY <1>3 DEF Cooling
<1>4. CASE Full(t) BY <1>4 DEF Full
<1>5. CASE Ended(t)
  <2>1. task'[t].pc = "failed"
    BY <1>5, GotoTask DEF Ended, Positions, Over
  <2>2. QED BY <1>5, <2>1 DEF Ended
<1>6. CASE \/ Start(t) \/ Prepared(t) \/ ReadAsset(t) \/ GetUrl(t) \/ Transfer(t) \/ Track(t)
           \/ TakeLane(t) \/ Busy(t) \/ Reserve(t) \/ Put(t) \/ Finalize(t) \/ Bind(t)
  BY <1>6 DEF Start, Prepared, ReadAsset, GetUrl, Transfer, Track, TakeLane, Busy, Reserve,
              Put, Finalize, Bind
<1>7. QED BY <1>1, <1>2, <1>3, <1>4, <1>5, <1>6 DEF Step

(***************************************************************************)
(* The inductive invariant.  A creation has passed on what precedes the    *)
(* asset in hand; whoever has looked at the cache in the session at hand   *)
(* left it refreshed, and what it holds is of the session it was seen in.  *)
(***************************************************************************)
Got(t, asset) == [project |-> t, asset |-> asset, session |-> task[t].session] \in received

Whole ==
  \A t \in Creations :
    /\ task[t].pc = "idle" => task[t].asset = 1
    /\ \A asset \in 1 .. AssetCount :
         asset < task[t].asset \/ task[t].pc \in Complete => Got(t, asset)

SeenBy(t) ==
  /\ task[t].session \leq session
  /\ task[t].pc \in {"ask", "capabilities", "full"} => t \in Creations
  /\ t \in Creations /\ task[t].pc \in Looked /\ Current(t) => cache.seen = session

OfOneSession ==
  /\ cache.blocked => cache.refused = cache.seen
  /\ cache.capability # "unknown" => cache.learned = cache.seen

Own == OfOneSession /\ \A t \in Tasks : SeenBy(t)

Inv == Types /\ Whole /\ Own

LEMMA WholeStep ==
  ASSUME ConstantsAreSound, Inv, NEW t \in Tasks, Step(t)
  PROVE  Whole'
<1>1. Taken(t)
  BY StepTaken DEF Inv
<1>2. SUFFICES ASSUME NEW u \in Creations
               PROVE  /\ task'[u].pc = "idle" => task'[u].asset = 1
                      /\ \A asset \in 1 .. AssetCount :
                           asset < task'[u].asset \/ task'[u].pc \in Complete => Got(u, asset)'
  BY DEF Whole
<1>3. received \subseteq received'
  BY <1>1 DEF Taken, Started, Kept, Advanced, Receive
<1>4. /\ u \in Tasks /\ task[u].asset \in Nat /\ AssetCount \in Nat
      /\ task[u].pc = "idle" => task[u].asset = 1
      /\ \A asset \in 1 .. AssetCount :
           asset < task[u].asset \/ task[u].pc \in Complete => Got(u, asset)
  BY DEF Inv, Whole, Tasks, Types, TaskRecords, ConstantsAreSound
<1>5. CASE u # t
  <2>1. task'[u] = task[u]
    BY <1>1, <1>4, <1>5 DEF Taken, Others
  <2>2. QED BY <1>3, <1>4, <2>1 DEF Got
<1>6. CASE u = t /\ Started(t)
  BY <1>4, <1>6 DEF Started, Complete
<1>7. CASE u = t /\ Kept(t)
  BY <1>4, <1>7 DEF Kept, Got
<1>8. CASE u = t /\ Advanced(t)
  <2>1. \A asset : asset = task[u].asset => Got(u, asset)'
    BY <1>8 DEF Advanced, Receive, Got, Current
  <2>2. \A asset \in 1 .. AssetCount : asset < task[u].asset => Got(u, asset)'
    BY <1>3, <1>4, <1>8 DEF Advanced, Got
  <2>3. task[u].asset \in 1 .. AssetCount
    BY <1>4 DEF Inv, Types, TaskRecords
  <2>4. CASE task[u].asset = AssetCount
    BY <1>4, <1>8, <2>1, <2>2, <2>4 DEF Advanced
  <2>5. CASE task[u].asset # AssetCount
    BY <1>4, <1>8, <2>1, <2>2, <2>5 DEF Advanced, Complete
  <2>6. QED BY <2>4, <2>5
<1>9. QED BY <1>1, <1>5, <1>6, <1>7, <1>8 DEF Taken

LEMMA OwnStep ==
  ASSUME Inv, NEW t \in Tasks, CacheTaken(t), session' = session, Taken(t)
  PROVE  Own' /\ cache' \in Caches
<1>1. /\ cache \in Caches /\ session \in Nat /\ OfOneSession
      /\ \A u \in Tasks : SeenBy(u) /\ task[u] \in TaskRecords
  BY DEF Inv, Own, Types
<1>2. t \in Creations \/ task[t].pc \notin {"ask", "capabilities", "full"}
  BY <1>1 DEF SeenBy
<1>3. /\ cache' \in Caches /\ OfOneSession'
      /\ cache'.seen \in {cache.seen, session}
      /\ task[t].pc = "ask" => cache'.seen = session \/ task'[t].pc = "failed"
  <2>1. CASE cache' = cache /\ (task[t].pc = "ask" => task'[t].pc = "failed")
    BY <1>1, <2>1 DEF OfOneSession
  <2>2. CASE cache' = Refreshed
    BY <1>1, <2>2 DEF OfOneSession, Refreshed, Caches
  <2>3. CASE \E answer \in {"yes", "no"} :
               Learn(answer) /\ task[t].pc = "capabilities" /\ Current(t)
    <3>1. cache.seen = session
      BY <1>1, <1>2, <2>3 DEF SeenBy, Looked
    <3>2. QED BY <1>1, <2>3, <3>1 DEF OfOneSession, Learn, Caches
  <2>4. CASE /\ cache' = [cache EXCEPT !.blocked = TRUE, !.refused = task[t].session]
             /\ task[t].pc = "full" /\ Current(t)
    <3>1. cache.seen = session /\ task[t].session = session
      BY <1>1, <1>2, <2>4 DEF SeenBy, Looked, Current
    <3>2. cache' = [cache EXCEPT !.blocked = TRUE, !.refused = session]
      BY <2>4, <3>1
    <3>3. QED BY <1>1, <2>4, <3>1, <3>2 DEF OfOneSession, Caches
  <2>5. QED BY <2>1, <2>2, <2>3, <2>4 DEF CacheTaken
<1>4. ASSUME NEW u \in Tasks PROVE SeenBy(u)'
  <2>1. CASE u # t
    <3>1. task'[u] = task[u]
      BY <2>1 DEF Taken, Others
    <3>2. QED BY <1>1, <1>3, <3>1 DEF SeenBy, Current
  <2>2. CASE u = t
    <3>1. task'[t].session \leq session
      BY <1>1 DEF Taken, Started, Kept, Advanced, SeenBy
    <3>2. task'[t].pc \in {"ask", "capabilities", "full"} => t \in Creations
      BY <1>2 DEF Taken, Route
    <3>3. t \in Creations /\ task'[t].pc \in Looked => cache'.seen = session
      BY <1>1, <1>3 DEF Taken, Route, SeenBy, Looked
    <3>4. QED BY <2>2, <3>1, <3>2, <3>3 DEF SeenBy
  <2>3. QED BY <2>1, <2>2
<1>5. QED BY <1>3, <1>4 DEF Own

LEMMA AloneStep ==
  ASSUME Inv, SwitchAccount \/ Expire \/ MakeRoom
  PROVE  Inv'
<1>1. /\ cache \in Caches /\ session \in Nat /\ OfOneSession
      /\ \A u \in Tasks : SeenBy(u) /\ task[u] \in TaskRecords
      /\ task' = task /\ received' = received
  BY DEF Inv, Own, Types, SwitchAccount, Expire, MakeRoom
<1>2. Whole'
  BY <1>1 DEF Inv, Whole, Got
<1>3. CASE SwitchAccount
  <2>1. session' = session + 1 /\ cache' = cache
    BY <1>3 DEF SwitchAccount
  <2>2. \A u \in Tasks : SeenBy(u)'
    BY <1>1, <2>1 DEF SeenBy, Current, TaskRecords
  <2>3. QED BY <1>1, <1>2, <2>1, <2>2 DEF Inv, Own, Types, OfOneSession
<1>4. CASE Expire \/ MakeRoom
  <2>1. cache' \in Caches /\ cache'.seen = cache.seen /\ OfOneSession' /\ session' = session
    BY <1>1, <1>4 DEF Expire, MakeRoom, Caches, OfOneSession
  <2>2. \A u \in Tasks : SeenBy(u)'
    BY <1>1, <2>1 DEF SeenBy, Current
  <2>3. QED BY <1>1, <1>2, <2>1, <2>2 DEF Inv, Own, Types
<1>5. QED BY <1>3, <1>4

LEMMA InvHolds == ASSUME ConstantsAreSound PROVE Spec => []Inv
<1>1. Init => Inv
  <2>1. SUFFICES ASSUME Init PROVE Inv
    OBVIOUS
  <2>2. AssetCount \in Nat \ {0}
    BY DEF ConstantsAreSound
  <2>3. Types
    BY <2>1, <2>2 DEF Init, Types, Caches, TaskRecords, Positions, Over
  <2>4. \A t \in Tasks : task[t].pc = "idle" /\ task[t].asset = 1 /\ task[t].session = 0
    BY <2>1 DEF Init
  <2>5. Whole
    BY <2>2, <2>4 DEF Whole, Complete, Tasks
  <2>6. Own
    BY <2>1, <2>4 DEF Init, Own, OfOneSession, SeenBy, Looked
  <2>7. QED BY <2>3, <2>5, <2>6 DEF Inv
<1>2. Inv /\ [Next]_vars => Inv'
  <2>1. SUFFICES ASSUME Inv, [Next]_vars PROVE Inv'
    OBVIOUS
  <2>2. CASE SwitchAccount \/ Expire \/ MakeRoom
    BY <2>1, <2>2, AloneStep
  <2>3. ASSUME NEW t \in Tasks, Step(t) PROVE Inv'
    <3>1. Taken(t) /\ CacheTaken(t) /\ session' = session
      BY <2>1, <2>3, StepTaken, StepCache DEF Inv
    <3>2. Whole'
      BY <2>1, <2>3, WholeStep
    <3>3. Own' /\ cache' \in Caches
      BY <2>1, <2>3, <3>1, OwnStep
    <3>4. Types'
      BY <2>1, <3>1, <3>3 DEF Inv, Types, Taken, Others
    <3>5. QED BY <3>2, <3>3, <3>4 DEF Inv
  <2>4. CASE UNCHANGED vars
    BY <2>1, <2>4 DEF vars, Inv, Types, Whole, Got, Own, OfOneSession, SeenBy, Current
  <2>5. QED BY <2>1, <2>2, <2>3, <2>4 DEF Next
<1>3. QED BY <1>1, <1>2, PTL DEF Spec

(***************************************************************************)
(* The properties of Uploads.                                              *)
(***************************************************************************)
(* A tracked project has all of its assets with the service, under the account that sends *)
(* its request, whatever number of assets, creations, retries and account changes.        *)
THEOREM TrackedProjectsAreWhole == ASSUME ConstantsAreSound PROVE Spec => []TrackedIsWhole
<1>1. Inv => TrackedIsWhole
  BY DEF Inv, Whole, Complete, TrackedIsWhole, At, Got
<1>2. QED BY <1>1, InvHolds, PTL

(* A creation is sent past its library, or into it, by what the service said of the       *)
(* account it runs under alone.                                                           *)
THEOREM RefusalsAreOwn == ASSUME ConstantsAreSound PROVE Spec => OwnRefusalsOnly
<1> DEFINE Apart == \A t \in Creations :
      task[t].pc \in {"ask", "cooling"} /\ task'[t].pc \in {"url", "lane"} =>
        /\ cache'.blocked => cache'.refused = session
        /\ ~cache'.blocked => cache'.learned = session
<1>1. Inv /\ [Next]_vars => Apart
  <2>1. SUFFICES ASSUME Inv, [Next]_vars, NEW t \in Creations,
                        task[t].pc \in {"ask", "cooling"}, task'[t].pc \in {"url", "lane"}
                 PROVE  /\ cache'.blocked => cache'.refused = session
                        /\ ~cache'.blocked => cache'.learned = session
    OBVIOUS
  <2>2. /\ t \in Tasks /\ task[t] \in TaskRecords /\ OfOneSession /\ cache \in Caches
    BY <2>1 DEF Inv, Types, Own, Tasks
  <2>3. task'[t] # task[t]
    BY <2>1
  <2>4. Step(t)
    <3>1. PICK u \in Tasks : Step(u)
      BY <2>1, <2>3 DEF Next, SwitchAccount, Expire, MakeRoom, vars
    <3>2. QED BY <2>1, ConstantsAreSound, <2>2, <2>3, <3>1, StepTaken DEF Inv, Taken, Others
  <2>5. Ask(t) \/ Cooling(t) \/ Ended(t)
    BY <2>1, <2>4 DEF Step, Runs, At, Start, Prepared, ReadAsset, GetUrl, Transfer, Track,
                      Capabilities, TakeLane, Busy, Reserve, Full, Put, Finalize, Bind
  <2>6. \A p \in Positions : Goto(t, p) => task'[t].pc = p
    BY <2>1, <2>2, GotoTask DEF Inv
  <2>7. ~Ended(t)
    BY <2>1, <2>6 DEF Ended, Positions, Over
  <2>8. CASE Ask(t)
    <3>1. cache' = Refreshed
      BY <2>8 DEF Ask
    <3>2. Refreshed.blocked \/ Refreshed.capability # "unknown"
      BY <2>1, <2>6, <2>8 DEF Ask, Positions
    <3>3. QED BY <2>2, <3>1, <3>2 DEF Refreshed, OfOneSession, Caches
  <2>9. CASE Cooling(t)
    <3>1. cache' = Refreshed /\ Refreshed.blocked
      BY <2>1, <2>6, <2>9 DEF Cooling, Positions
    <3>2. QED BY <2>2, <3>1 DEF Refreshed, OfOneSession, Caches
  <2>10. QED BY <2>5, <2>7, <2>8, <2>9
<1>2. QED BY <1>1, InvHolds, PTL DEF Spec, OwnRefusalsOnly
================================================================================
