--------------------------- MODULE VideoRequestProofs ---------------------------
(***************************************************************************)
(* Proofs about VideoRequest, for any bound on the assets and any lengths, *)
(* links and pins.                                                         *)
(***************************************************************************)
EXTENDS VideoRequest, FiniteSetTheorems, SequenceTheorems, WellFoundedInduction, TLAPS

Slotted == {"keyframeImage"} \cup Numbered
Names == {"startingImage", "referenceImage", "referenceImageEnd", "referenceAudio",
          "referenceAudioIdentity", "referenceVideo", "referenceMask", "contextImage"} \cup Slotted
AssetRoles == {role \in [name : Names, slot : Nat] : role.name \in Slotted => role.slot # 0}
KeyframeEntries == [image : BOOLEAN, index : Nat]
Firsts == {"referenceAudio", "referenceVideo"}

RequestTyped ==
  /\ {"assets", "keyframes"} \subseteq DOMAIN request
  /\ request.assets \in Seq(AssetRoles) /\ request.keyframes \in Seq(KeyframeEntries)
  /\ request.length \in Lengths

LEMMA LeastNatural ==
  ASSUME NEW T, T \subseteq Nat, T # {}
  PROVE  \E n \in T : \A m \in T : ~ (m < n)
<1>1. \E x \in T : \A y \in T : ~ (<<y, x>> \in OpToRel(<, Nat))
  BY NatLessThanWellFounded, WFMin
<1>2. QED BY <1>1 DEF OpToRel

LEMMA ByInduction ==
  ASSUME NEW S, 0 \in S, \A n \in Nat : n \in S => n + 1 \in S
  PROVE  Nat \subseteq S
<1>1. SUFFICES ASSUME Nat \ S # {} PROVE FALSE
  OBVIOUS
<1>2. PICK n \in Nat \ S : \A m \in Nat \ S : ~ (m < n)
  BY <1>1, LeastNatural
<1>3. n # 0 /\ n - 1 \in Nat /\ n - 1 < n
  BY <1>2
<1>4. n - 1 \in S
  BY <1>2, <1>3
<1>5. QED BY <1>2, <1>3, <1>4

LEMMA IsSequence ==
  ASSUME NEW S, NEW n \in Nat, NEW f \in [1 .. n -> S]
  PROVE  f \in Seq(S) /\ Len(f) = n /\ DOMAIN f = 1 .. n
OBVIOUS

(***************************************************************************)
(* A recursion over a sequence has a value at each of its places.          *)
(***************************************************************************)
Recurs(f, P, step, base, s) ==
  /\ f \in [0 .. Len(s) -> P] /\ f[0] = base
  /\ \A n \in 1 .. Len(s) : f[n] = step[<<f[n - 1], s[n]>>]

LEMMA RecursionExists ==
  ASSUME NEW P, NEW A, NEW step \in [P \X A -> P], NEW base \in P, NEW s \in Seq(A)
  PROVE  \E f : Recurs(f, P, step, base, s)
<1> DEFINE Upto(n) == \E f \in [0 .. n -> P] :
             /\ f[0] = base
             /\ \A i \in 1 .. n : i <= Len(s) => f[i] = step[<<f[i - 1], s[i]>>]
           S == {n \in Nat : Upto(n)}
<1>1. 0 \in S
  <2>1. PICK f : f = [i \in 0 .. 0 |-> base]
    OBVIOUS
  <2>2. f \in [0 .. 0 -> P] /\ f[0] = base /\ \A i \in 1 .. 0 : FALSE
    BY <2>1
  <2>3. Upto(0)
    BY <2>2
  <2>4. QED BY <2>3
<1>2. ASSUME NEW n \in Nat, n \in S PROVE n + 1 \in S
  <2>1. PICK f \in [0 .. n -> P] :
          /\ f[0] = base
          /\ \A i \in 1 .. n : i <= Len(s) => f[i] = step[<<f[i - 1], s[i]>>]
    BY <1>2
  <2> DEFINE next == IF n + 1 <= Len(s) THEN step[<<f[n], s[n + 1]>>] ELSE base
             g == [i \in 0 .. n + 1 |-> IF i = n + 1 THEN next ELSE f[i]]
  <2>2. next \in P
    <3>1. f[n] \in P
      BY <2>1
    <3>2. n + 1 <= Len(s) => s[n + 1] \in A
      OBVIOUS
    <3>3. QED BY <3>1, <3>2
  <2>3. g \in [0 .. n + 1 -> P]
    BY <2>1, <2>2
  <2>4. g[0] = base
    BY <2>1
  <2>5. ASSUME NEW i \in 1 .. n + 1, i <= Len(s)
        PROVE  g[i] = step[<<g[i - 1], s[i]>>]
    <3>1. CASE i = n + 1
      <4>1. i - 1 = n /\ n \in 0 .. n + 1 /\ n # n + 1
        BY <3>1
      <4>2. g[i - 1] = f[n]
        BY <4>1
      <4>3. QED BY <3>1, <4>1, <4>2, <2>5
    <3>2. CASE i # n + 1
      <4>1. i \in 1 .. n /\ i \in 0 .. n + 1 /\ i - 1 \in 0 .. n + 1 /\ i - 1 # n + 1
        BY <3>2
      <4>2. g[i] = f[i] /\ g[i - 1] = f[i - 1]
        BY <3>2, <4>1
      <4>3. QED BY <2>1, <2>5, <4>1, <4>2
    <3>3. QED BY <3>1, <3>2
  <2>6. QED
    <3> HIDE DEF g
    <3>1. QED BY <2>3, <2>4, <2>5
<1> HIDE DEF S
<1>3. Nat \subseteq S
  BY <1>1, <1>2, ByInduction
<1>4. Len(s) \in S
  BY <1>3
<1>5. PICK f \in [0 .. Len(s) -> P] :
        /\ f[0] = base
        /\ \A i \in 1 .. Len(s) : i <= Len(s) => f[i] = step[<<f[i - 1], s[i]>>]
  BY <1>4 DEF S
<1>6. Recurs(f, P, step, base, s)
  BY <1>5 DEF Recurs
<1>7. QED BY <1>6

LEMMA RecursionStays ==
  ASSUME NEW P, NEW n \in Nat, NEW f, f[0] \in P,
         \A i \in 1 .. n : f[i - 1] \in P => f[i] \in P
  PROVE  f[n] \in P
<1> DEFINE S == {i \in Nat : i <= n => f[i] \in P}
<1>1. 0 \in S
  OBVIOUS
<1>2. ASSUME NEW i \in Nat, i \in S PROVE i + 1 \in S
  <2>1. SUFFICES ASSUME i + 1 <= n PROVE f[i + 1] \in P
    OBVIOUS
  <2>2. i <= n /\ i + 1 \in 1 .. n /\ i = (i + 1) - 1
    BY <2>1
  <2>3. f[(i + 1) - 1] \in P
    BY <1>2, <2>2
  <2>4. QED BY <2>2, <2>3
<1> HIDE DEF S
<1>3. n \in S
  BY <1>1, <1>2, ByInduction
<1>4. QED BY <1>3 DEF S

(***************************************************************************)
(* What marking does to the parameters.                                    *)
(***************************************************************************)
ParamsSet == [given : SUBSET (Names \X Nat), keyframes : Seq(KeyframeEntries),
              more : [Firsts -> Seq(BOOLEAN)]]

LEMMA NumberTyped ==
  ASSUME NEW params \in ParamsSet, NEW first \in Firsts, NEW slot \in Nat \ {0}
  PROVE  Number(params, first, slot) \in ParamsSet
<1>0. /\ params.given \in SUBSET (Names \X Nat) /\ params.keyframes \in Seq(KeyframeEntries)
      /\ params.more \in [Firsts -> Seq(BOOLEAN)]
      /\ params = [given |-> params.given, keyframes |-> params.keyframes, more |-> params.more]
  BY DEF ParamsSet
<1>1. CASE slot = 1
  <2>1. <<first, 0>> \in Names \X Nat
    BY DEF Firsts, Names
  <2>2. PICK given : given = params.given \cup {<<first, 0>>}
    OBVIOUS
  <2>3. given \in SUBSET (Names \X Nat)
    BY <1>0, <2>1, <2>2
  <2>4. Number(params, first, slot) = [params EXCEPT !.given = given]
    BY <1>1, <2>2 DEF Number
  <2>5. QED BY <1>0, <2>3, <2>4 DEF ParamsSet
<1>2. CASE slot # 1
  <2>1. PICK old, n : old = params.more[first] /\ n = slot - 1
    OBVIOUS
  <2>2. old \in Seq(BOOLEAN) /\ n \in Nat \ {0}
    BY <1>0, <1>2, <2>1
  <2>3. PICK long : long = Resized(old, n)
    OBVIOUS
  <2>4. long \in [1 .. n -> BOOLEAN]
    <3>1. ASSUME NEW i \in 1 .. n PROVE (IF i <= Len(old) THEN old[i] ELSE FALSE) \in BOOLEAN
      <4>1. CASE i <= Len(old)
        <5>1. old[i] \in BOOLEAN
          BY <2>2, <4>1
        <5>2. QED BY <4>1, <5>1
      <4>2. CASE ~ (i <= Len(old))
        BY <4>2
      <4>3. QED BY <4>1, <4>2
    <3>2. QED BY <2>3, <3>1 DEF Resized
  <2>5. PICK longer : longer = [long EXCEPT ![n] = TRUE]
    OBVIOUS
  <2>6. longer \in [1 .. n -> BOOLEAN]
    BY <2>2, <2>4, <2>5
  <2>7. longer \in Seq(BOOLEAN)
    BY <2>2, <2>6, IsSequence
  <2>8. PICK more : more = [params.more EXCEPT ![first] = longer]
    OBVIOUS
  <2>9. more \in [Firsts -> Seq(BOOLEAN)]
    BY <1>0, <2>7, <2>8
  <2>10. Number(params, first, slot) = [params EXCEPT !.more = more]
    BY <1>0, <1>2, <2>1, <2>3, <2>5, <2>8 DEF Number
  <2>11. QED BY <1>0, <2>9, <2>10 DEF ParamsSet
<1>3. QED BY <1>1, <1>2

(***************************************************************************)
(* What is marked in the parameters comes from an asset of the request.    *)
(***************************************************************************)
Asked == ToSet(request.assets)
SlotRole(first, slot) ==
  [name |-> IF first = "referenceAudio" THEN "referenceAudioSlot" ELSE "referenceVideoSlot",
   slot |-> slot]
KeyframeRole(slot) == [name |-> "keyframeImage", slot |-> slot]

GivenFrom(given) ==
  \/ \E first \in Firsts : given = <<first, 0>> /\ SlotRole(first, 1) \in Asked
  \/ \E role \in Asked : role.name \notin Slotted /\ given = <<role.name, role.slot>>

ComesFrom(params) ==
  /\ \A given \in params.given : GivenFrom(given)
  /\ \A first \in Firsts : \A i \in DOMAIN params.more[first] :
       params.more[first][i] => SlotRole(first, i + 1) \in Asked
  /\ \A i \in DOMAIN params.keyframes : 
       i <= 8 /\ params.keyframes[i].image => KeyframeRole(i) \in Asked

Sound == {params \in ParamsSet : ComesFrom(params)}

LEMMA NumberSound ==
  ASSUME NEW params \in Sound, NEW first \in Firsts, NEW slot \in Nat \ {0},
         SlotRole(first, slot) \in Asked
  PROVE  Number(params, first, slot) \in Sound
<1>0. /\ params \in ParamsSet /\ ComesFrom(params)
      /\ params.more \in [Firsts -> Seq(BOOLEAN)] /\ DOMAIN params = {"given", "keyframes", "more"}
  BY DEF Sound, ParamsSet
<1>1. PICK next : next = Number(params, first, slot)
  OBVIOUS
<1>2. next \in ParamsSet
  BY <1>0, <1>1, NumberTyped
<1>3. next.keyframes = params.keyframes
  BY <1>0, <1>1 DEF Number, ParamsSet
<1>4. \A given \in next.given : GivenFrom(given)
  <2>1. CASE slot = 1
    <3>1. next.given = params.given \cup {<<first, 0>>}
      BY <1>0, <1>1, <2>1 DEF Number, ParamsSet
    <3>2. GivenFrom(<<first, 0>>)
      BY <2>1 DEF GivenFrom
    <3>3. QED BY <1>0, <3>1, <3>2 DEF ComesFrom
  <2>2. CASE slot # 1
    <3>1. next.given = params.given
      BY <1>0, <1>1, <2>2 DEF Number, ParamsSet
    <3>2. QED BY <1>0, <3>1 DEF ComesFrom
  <2>3. QED BY <2>1, <2>2
<1>5. ASSUME NEW f \in Firsts, NEW i \in DOMAIN next.more[f], next.more[f][i]
      PROVE  SlotRole(f, i + 1) \in Asked
  <2>1. CASE slot = 1 \/ f # first
    <3>1. next.more[f] = params.more[f]
      BY <1>0, <1>1, <2>1 DEF Number, ParamsSet
    <3>2. QED BY <1>0, <1>5, <3>1 DEF ComesFrom
  <2>2. CASE slot # 1 /\ f = first
    <3>1. PICK old, n : old = params.more[first] /\ n = slot - 1 /\ n \in Nat \ {0}
      BY <2>2
    <3>2. PICK long : long = Resized(old, n)
      OBVIOUS
    <3>3. DOMAIN long = 1 .. n /\ \A k \in 1 .. n : long[k] = IF k <= Len(old) THEN old[k] ELSE FALSE
      BY <3>2 DEF Resized
    <3>4. next.more[f] = [long EXCEPT ![n] = TRUE]
      BY <1>0, <1>1, <2>2, <3>1, <3>2 DEF Number, ParamsSet
    <3>5. i \in 1 .. n
      BY <1>5, <3>3, <3>4
    <3>6. CASE i = n
      BY <2>2, <3>1, <3>6
    <3>7. CASE i # n
      <4>1. next.more[f][i] = long[i]
        BY <3>3, <3>4, <3>5, <3>7
      <4>2. i <= Len(old) /\ old[i]
        BY <1>5, <3>3, <3>5, <4>1
      <4>3. old \in Seq(BOOLEAN)
        BY <1>0, <3>1
      <4>4. i \in DOMAIN old
        BY <3>5, <4>2, <4>3
      <4>5. QED BY <1>0, <2>2, <3>1, <4>2, <4>4 DEF ComesFrom
    <3>8. QED BY <3>6, <3>7
  <2>3. QED BY <2>1, <2>2
<1>6. ComesFrom(next)
  BY <1>0, <1>3, <1>4, <1>5 DEF ComesFrom
<1>7. QED BY <1>1, <1>2, <1>6 DEF Sound

LEMMA KeyframeSound ==
  ASSUME NEW params \in Sound, NEW role \in AssetRoles, role \in Asked,
         role.name = "keyframeImage"
  PROVE  Mark(params, role) \in Sound
<1>0. /\ params \in ParamsSet /\ ComesFrom(params)
      /\ params.keyframes \in Seq(KeyframeEntries)
      /\ role.slot \in Nat \ {0} /\ role = KeyframeRole(role.slot)
  BY DEF Sound, ParamsSet, AssetRoles, Slotted, KeyframeRole
<1>1. PICK old : old = params.keyframes
  OBVIOUS
<1>2. PICK n \in Nat : n = IF Len(old) < role.slot THEN role.slot ELSE Len(old)
  BY <1>0, <1>1
<1> DEFINE Entry(i) == IF i <= Len(old) THEN old[i] ELSE [image |-> FALSE, index |-> 0]
<1> DEFINE Value(i) == IF i = role.slot THEN [Entry(i) EXCEPT !.image = TRUE] ELSE Entry(i)
<1>3. PICK frames : frames = [i \in 1 .. n |-> Value(i)]
  OBVIOUS
<1>4. ASSUME NEW i \in 1 .. n
      PROVE  /\ Value(i) \in KeyframeEntries
             /\ Value(i).image => i = role.slot \/ (i \in DOMAIN old /\ old[i].image)
  <2>1. Entry(i) \in KeyframeEntries /\ (Entry(i).image => i \in DOMAIN old /\ old[i].image)
    <3>1. CASE i <= Len(old)
      <4>1. i \in DOMAIN old /\ Entry(i) = old[i] /\ old[i] \in KeyframeEntries
        BY <1>0, <1>1, <3>1
      <4>2. QED BY <4>1
    <3>2. CASE ~ (i <= Len(old))
      BY <3>2 DEF KeyframeEntries
    <3>3. QED BY <3>1, <3>2
  <2> HIDE DEF Entry
  <2>2. QED BY <2>1 DEF KeyframeEntries
<1>5. frames \in [1 .. n -> KeyframeEntries]
  BY <1>3, <1>4
<1>6. frames \in Seq(KeyframeEntries) /\ DOMAIN frames = 1 .. n
  BY <1>5, IsSequence
<1>7. \A i \in DOMAIN frames : i <= 8 /\ frames[i].image => KeyframeRole(i) \in Asked
  <2> SUFFICES ASSUME NEW i \in DOMAIN frames, i <= 8, frames[i].image
               PROVE  KeyframeRole(i) \in Asked
    OBVIOUS
  <2>1. i \in 1 .. n /\ frames[i] = Value(i)
    BY <1>3, <1>6
  <2>2. i = role.slot \/ (i \in DOMAIN old /\ old[i].image)
    BY <1>4, <2>1
  <2>3. QED BY <1>0, <1>1, <2>2 DEF ComesFrom
<1>8. Mark(params, role) = [params EXCEPT !.keyframes = frames]
  BY <1>0, <1>1, <1>2, <1>3 DEF Mark, ParamsSet
<1> HIDE DEF Value
<1>9. PICK next : next = Mark(params, role)
  OBVIOUS
<1>10. next \in ParamsSet /\ next.given = params.given /\ next.more = params.more /\ next.keyframes = frames
  BY <1>0, <1>6, <1>8, <1>9 DEF ParamsSet
<1>11. ComesFrom(next)
  BY <1>0, <1>7, <1>10 DEF ComesFrom
<1>12. QED BY <1>9, <1>10, <1>11 DEF Sound

LEMMA MarkSound ==
  ASSUME NEW params \in Sound, NEW role \in AssetRoles, role \in Asked
  PROVE  Mark(params, role) \in Sound
<1>1. CASE role.name = "keyframeImage"
  BY <1>1, KeyframeSound
<1>2. CASE role.name = "referenceAudioSlot"
  <2>1. role.slot \in Nat \ {0} /\ role = SlotRole("referenceAudio", role.slot)
    BY <1>2 DEF AssetRoles, Slotted, Numbered, SlotRole
  <2>2. Mark(params, role) = Number(params, "referenceAudio", role.slot)
    BY <1>2 DEF Mark
  <2>3. QED BY <2>1, <2>2, NumberSound DEF Firsts
<1>3. CASE role.name = "referenceVideoSlot"
  <2>1. role.slot \in Nat \ {0} /\ role = SlotRole("referenceVideo", role.slot)
    BY <1>3 DEF AssetRoles, Slotted, Numbered, SlotRole
  <2>2. Mark(params, role) = Number(params, "referenceVideo", role.slot)
    BY <1>3 DEF Mark
  <2>3. QED BY <2>1, <2>2, NumberSound DEF Firsts
<1>4. CASE role.name \notin Slotted
  <2>1. PICK given, next : given = <<role.name, role.slot>> /\ next = Mark(params, role)
    OBVIOUS
  <2>2. params \in ParamsSet /\ ComesFrom(params)
    BY DEF Sound
  <2>3. next = [params EXCEPT !.given = params.given \cup {given}]
    BY <1>4, <2>1 DEF Mark, Slotted, Numbered
  <2>4. given \in Names \X Nat
    BY <2>1 DEF AssetRoles
  <2>5. params.given \cup {given} \in SUBSET (Names \X Nat)
    BY <2>2, <2>4 DEF ParamsSet
  <2>6. /\ next \in ParamsSet /\ next.given = params.given \cup {given}
        /\ next.more = params.more /\ next.keyframes = params.keyframes
    BY <2>2, <2>3, <2>5 DEF ParamsSet
  <2>7. GivenFrom(given)
    BY <1>4, <2>1 DEF GivenFrom
  <2>8. ComesFrom(next)
    BY <2>2, <2>6, <2>7 DEF ComesFrom
  <2>9. QED BY <2>1, <2>6, <2>8 DEF Sound
<1>5. QED BY <1>1, <1>2, <1>3, <1>4 DEF Slotted, Numbered

MarksUpto(f, params) ==
  f = [n \in 0 .. Len(request.assets) |->
        IF n = 0 THEN params ELSE Mark(f[n - 1], request.assets[n])]

LEMMA MarkedSound ==
  ASSUME request.assets \in Seq(AssetRoles), NEW params \in Sound
  PROVE  Marked(params) \in Sound
<1> DEFINE A == {role \in AssetRoles : role \in Asked}
           N == Len(request.assets)
           step == [x \in Sound \X A |-> Mark(x[1], x[2])]
<1>1. N \in Nat /\ \A n \in 1 .. N : request.assets[n] \in A
  BY DEF Asked, ToSet
<1>2. request.assets \in Seq(A)
  BY <1>1
<1>3. ASSUME NEW p \in Sound, NEW role \in A
      PROVE  step[<<p, role>>] = Mark(p, role) /\ Mark(p, role) \in Sound
  BY MarkSound
<1>4. step \in [Sound \X A -> Sound]
  BY MarkSound
<1> HIDE DEF step, A
<1>5. PICK g \in [0 .. N -> Sound] :
        /\ g[0] = params
        /\ \A n \in 1 .. N : g[n] = step[<<g[n - 1], request.assets[n]>>]
  <2>1. PICK g : Recurs(g, Sound, step, params, request.assets)
    BY <1>2, <1>4, RecursionExists
  <2>2. QED BY <2>1 DEF Recurs
<1>6. MarksUpto(g, params)
  <2>1. ASSUME NEW n \in 0 .. N
        PROVE  g[n] = IF n = 0 THEN params ELSE Mark(g[n - 1], request.assets[n])
    <3>1. CASE n = 0
      BY <1>5, <3>1
    <3>2. CASE n # 0
      <4>1. n \in 1 .. N /\ n - 1 \in 0 .. N
        BY <1>1, <3>2
      <4>2. g[n - 1] \in Sound /\ request.assets[n] \in A
        BY <1>1, <1>5, <4>1
      <4>3. QED BY <1>3, <1>5, <3>2, <4>1, <4>2
    <3>3. QED BY <3>1, <3>2
  <2>2. g = [n \in 0 .. N |-> g[n]]
    BY <1>5
  <2>3. QED BY <2>1, <2>2 DEF MarksUpto
<1>7. PICK f : MarksUpto(f, params) /\ Marked(params) = f[N]
  <2> DEFINE f == CHOOSE h : MarksUpto(h, params)
  <2>1. MarksUpto(f, params)
    BY <1>6
  <2>2. Marked(params) = f[N]
    BY DEF Marked, MarksUpto
  <2>3. QED BY <2>1, <2>2
<1>8. f[0] \in Sound
  BY <1>1, <1>7 DEF MarksUpto
<1>9. ASSUME NEW n \in 1 .. N, f[n - 1] \in Sound PROVE f[n] \in Sound
  <2>1. n \in 0 .. N /\ n # 0
    BY <1>1
  <2>2. f[n] = Mark(f[n - 1], request.assets[n])
    BY <1>7, <2>1 DEF MarksUpto
  <2>3. QED BY <1>1, <1>3, <1>9, <2>2
<1>10. f[N] \in Sound
  BY <1>1, <1>8, <1>9, RecursionStays
<1>11. QED BY <1>7, <1>10

OthersUpto(f) ==
  f = [n \in 0 .. Len(request.assets) |->
        IF n = 0 THEN <<>>
        ELSE IF request.assets[n].name = "keyframeImage" THEN f[n - 1]
        ELSE Append(f[n - 1], request.assets[n])]

LEMMA OthersTyped ==
  ASSUME request.assets \in Seq(AssetRoles)
  PROVE  Others \in Seq(AssetRoles)
<1> DEFINE N == Len(request.assets)
           P == Seq(AssetRoles)
           Left(others, role) ==
             IF role.name = "keyframeImage" THEN others ELSE Append(others, role)
           step == [x \in P \X AssetRoles |-> Left(x[1], x[2])]
<1>1. N \in Nat /\ \A n \in 1 .. N : request.assets[n] \in AssetRoles
  OBVIOUS
<1>2. ASSUME NEW others \in P, NEW role \in AssetRoles
      PROVE  step[<<others, role>>] = Left(others, role) /\ Left(others, role) \in P
  OBVIOUS
<1>3. step \in [P \X AssetRoles -> P]
  OBVIOUS
<1>4. <<>> \in P
  OBVIOUS
<1> HIDE DEF step, P
<1>5. PICK g : Recurs(g, P, step, <<>>, request.assets)
  BY <1>3, <1>4, RecursionExists
<1>6. OthersUpto(g)
  <2>1. ASSUME NEW n \in 0 .. N
        PROVE  g[n] = IF n = 0 THEN <<>> ELSE Left(g[n - 1], request.assets[n])
    <3>1. CASE n = 0
      BY <1>5, <3>1 DEF Recurs
    <3>2. CASE n # 0
      <4>1. n \in 1 .. N /\ n - 1 \in 0 .. N
        BY <1>1, <3>2
      <4>2. g[n - 1] \in P /\ request.assets[n] \in AssetRoles
        BY <1>1, <1>5, <4>1 DEF Recurs
      <4>3. g[n] = step[<<g[n - 1], request.assets[n]>>]
        BY <1>5, <4>1 DEF Recurs
      <4>4. QED BY <1>2, <3>2, <4>2, <4>3
    <3>3. QED BY <3>1, <3>2
  <2>2. g = [n \in 0 .. N |-> g[n]]
    BY <1>5 DEF Recurs
  <2>3. QED BY <2>1, <2>2 DEF OthersUpto
<1>7. PICK f : OthersUpto(f) /\ Others = f[N]
  <2> DEFINE f == CHOOSE h : OthersUpto(h)
  <2>1. OthersUpto(f)
    BY <1>6
  <2>2. Others = f[N]
    BY DEF Others, OthersUpto
  <2>3. QED BY <2>1, <2>2
<1>8. f[0] \in P
  BY <1>1, <1>4, <1>7 DEF OthersUpto
<1>9. ASSUME NEW n \in 1 .. N, f[n - 1] \in P PROVE f[n] \in P
  <2>1. n \in 0 .. N /\ n # 0
    BY <1>1
  <2>2. f[n] = Left(f[n - 1], request.assets[n])
    BY <1>7, <2>1 DEF OthersUpto
  <2>3. QED BY <1>1, <1>2, <1>9, <2>2
<1>10. f[N] \in P
  BY <1>1, <1>8, <1>9, RecursionStays
<1>11. QED BY <1>7, <1>10 DEF P

(***************************************************************************)
(* The requests of a behaviour.                                            *)
(***************************************************************************)
(* A keyframe that is given has an image; more than eight are refused *)
KeyframesHaveImages ==
  \A i \in DOMAIN request.keyframes : i <= 8 => KeyframeRole(i) \in Asked

LEMMA ParamsSound ==
  ASSUME RequestTyped, KeyframesHaveImages
  PROVE  Params \in Sound
<1>1. PICK base : base = [given |-> {}, keyframes |-> request.keyframes,
                          more |-> [first \in Firsts |-> <<>>]]
  OBVIOUS
<1>2. request.assets \in Seq(AssetRoles) /\ request.keyframes \in Seq(KeyframeEntries)
  BY DEF RequestTyped
<1>3. base \in ParamsSet
  BY <1>1, <1>2 DEF ParamsSet
<1>4. ComesFrom(base)
  BY <1>1 DEF ComesFrom, KeyframesHaveImages
<1>5. Marked(base) \in Sound
  BY <1>2, <1>3, <1>4, MarkedSound DEF Sound
<1>6. Marked(Marked(base)) \in Sound
  BY <1>2, <1>5, MarkedSound
<1>7. QED BY <1>1, <1>6 DEF Params, Firsts

Uploaded == {WireName(role) : role \in Asked}
Promised == \A announced \in wire.assets : UploadOf(announced) \in Uploaded

(* A role marks a parameter of its own name, or is a numbered reference *)
LEMMA PlainFrom ==
  ASSUME NEW params \in Sound, NEW name, NEW slot, <<name, slot>> \in params.given,
         name \notin Firsts
  PROVE  \E role \in Asked : role.name = name /\ role.slot = slot /\ name \notin Slotted
BY DEF Sound, ComesFrom, GivenFrom

(* The slots of a kind that H3's references are numbered with: they are all uploaded *)
LEMMA SlotsAreUploaded ==
  ASSUME RequestTyped, NEW params \in Sound, RolesFit, AssetsFit(params), H3Reference,
         NEW first \in Firsts, NEW slot \in 1 .. Slots(params, first)
  PROVE  <<first, slot>> \in Uploaded
<1> DEFINE name == SlotRole(first, slot).name
           numbered == {role.slot : role \in {r \in Asked : r.name = name}}
           plain == IF [name |-> first, slot |-> 0] \in Asked THEN {1} ELSE {}
           slots == numbered \cup plain
           more == params.more[first]
<1>1. /\ ComesFrom(params) /\ params \in ParamsSet /\ more \in Seq(BOOLEAN)
      /\ request.assets \in Seq(AssetRoles)
  BY DEF Sound, ParamsSet, RequestTyped
<1>2. Asked \subseteq AssetRoles
  BY <1>1 DEF Asked, ToSet
<1>3. \A s \in slots : 1 .. s \subseteq slots
  <2>1. name \in Numbered /\ (IF name = "referenceAudioSlot" THEN "referenceAudio" ELSE "referenceVideo") = first
    BY DEF Numbered, SlotRole, Firsts
  <2>2. Contiguous(name)
    BY <2>1 DEF RolesFit
  <2>3. QED BY <2>1, <2>2 DEF Contiguous, Asked
<1>4. ASSUME NEW s \in slots PROVE <<first, s>> \in Uploaded
  <2>1. CASE s \in numbered
    <3>1. PICK role \in Asked : role.name = name /\ role.slot = s
      BY <2>1
    <3>2. WireName(role) = <<first, s>>
      BY <3>1 DEF WireName, SlotRole, Firsts
    <3>3. QED BY <3>1, <3>2 DEF Uploaded
  <2>2. CASE s \in plain
    <3>1. [name |-> first, slot |-> 0] \in Asked /\ s = 1
      BY <2>2
    <3>2. WireName([name |-> first, slot |-> 0]) = <<first, 1>>
      BY DEF WireName, Firsts
    <3>3. QED BY <3>1, <3>2 DEF Uploaded
  <2>3. QED BY <2>1, <2>2
<1>5. ASSUME NEW i \in DOMAIN more PROVE i + 1 \in slots
  <2>1. more # <<>>
    BY <1>1, <1>5
  <2>2. params.more[first][i]
    <3>1. DOMAIN params.more = Firsts
      BY <1>1 DEF ParamsSet
    <3>2. QED BY <1>5, <2>1, <3>1 DEF AssetsFit
  <2>3. SlotRole(first, i + 1) \in Asked
    BY <1>1, <2>2 DEF ComesFrom
  <2>4. SlotRole(first, i + 1).name = name /\ SlotRole(first, i + 1).slot = i + 1
    BY DEF SlotRole
  <2>5. QED BY <2>3, <2>4
<1>6. ASSUME Given(params, first) PROVE 1 \in slots
  <2>1. GivenFrom(<<first, 0>>)
    BY <1>1, <1>6 DEF Given, ComesFrom
  <2>2. CASE \E f \in Firsts : <<first, 0>> = <<f, 0>> /\ SlotRole(f, 1) \in Asked
    <3>1. SlotRole(first, 1) \in Asked /\ SlotRole(first, 1).name = name /\ SlotRole(first, 1).slot = 1
      BY <2>2 DEF SlotRole
    <3>2. QED BY <3>1
  <2>3. CASE \E role \in Asked : role.name \notin Slotted /\ <<first, 0>> = <<role.name, role.slot>>
    <3>1. PICK role \in Asked : role.name = first /\ role.slot = 0
      BY <2>3
    <3>2. role \in AssetRoles
      BY <1>2
    <3>3. role = [name |-> first, slot |-> 0]
      BY <3>1, <3>2 DEF AssetRoles
    <3>4. QED BY <3>1, <3>3
  <2>4. QED BY <2>1, <2>2, <2>3 DEF GivenFrom
<1>7. PICK m \in Nat : m = Len(more) /\ DOMAIN more = 1 .. m
  BY <1>1
<1>8. Slots(params, first) = Count(Given(params, first)) + m
  <2>1. {i \in DOMAIN more : more[i]} = 1 .. m
    <3>1. ASSUME NEW i \in DOMAIN more PROVE more[i]
      <4>1. more # <<>>
        BY <1>1, <3>1
      <4>2. DOMAIN params.more = Firsts
        BY <1>1 DEF ParamsSet
      <4>3. QED BY <3>1, <4>1, <4>2 DEF AssetsFit
    <3>2. QED BY <1>7, <3>1
  <2>2. Cardinality(1 .. m) = m
    BY FS_Interval
  <2>3. QED BY <2>1, <2>2 DEF Slots
<1> HIDE DEF slots, more
<1>9. CASE m = 0
  <2>1. slot = 1 /\ Given(params, first)
    BY <1>8, <1>9 DEF Count
  <2>2. QED BY <1>4, <1>6, <2>1
<1>10. CASE m # 0
  <2>1. m + 1 \in slots
    <3>1. m \in DOMAIN more
      BY <1>7, <1>10
    <3>2. QED BY <1>5, <3>1
  <2>2. slot \in 1 .. m + 1
    BY <1>7, <1>8 DEF Count
  <2>3. slot \in slots
    BY <1>3, <2>1, <2>2
  <2>4. QED BY <1>4, <2>3
<1>11. QED BY <1>9, <1>10

(* What prepare_submission announces is uploaded: each of its names is some asset's *)
LEMMA AnnouncedIsUploaded ==
  ASSUME RequestTyped, NEW params \in Sound, RolesFit, AssetsFit(params),
         NEW announced \in Announced(params)
  PROVE  UploadOf(announced) \in Uploaded
<1>1. /\ ComesFrom(params) /\ params \in ParamsSet /\ request.assets \in Seq(AssetRoles)
  BY DEF Sound, ParamsSet, RequestTyped
<1>2. Asked \subseteq AssetRoles
  BY <1>1 DEF Asked, ToSet
<1>3. ASSUME NEW name \in {"referenceImage", "referenceImageEnd", "referenceAudioIdentity", "referenceMask"},
             Given(params, name), announced = <<name, 0>>
      PROVE  UploadOf(announced) \in Uploaded
  <2>1. PICK role \in Asked : role.name = name /\ role.slot = 0
    BY <1>3, PlainFrom DEF Given, Firsts
  <2>2. WireName(role) = UploadOf(announced)
    BY <1>3, <2>1 DEF WireName, UploadOf
  <2>3. QED BY <2>1, <2>2 DEF Uploaded
<1>4. ASSUME NEW first \in Firsts, H3Reference, NEW slot \in 1 .. Slots(params, first),
             announced = <<first, slot>>
      PROVE  UploadOf(announced) \in Uploaded
  <2>1. UploadOf(announced) = announced
    BY <1>4 DEF UploadOf, Firsts
  <2>2. QED BY <1>4, <2>1, SlotsAreUploaded
<1>5. ASSUME NEW first \in Firsts, ~H3Reference, Given(params, first), announced = <<first, 0>>
      PROVE  UploadOf(announced) \in Uploaded
  <2>1. GivenFrom(<<first, 0>>)
    BY <1>1, <1>5 DEF Given, ComesFrom
  <2>2. ASSUME NEW role \in Asked PROVE role.name \notin Numbered
    BY <1>5, <2>2 DEF RolesFit, Asked
  <2>3. PICK role \in Asked : role.name = first /\ role.slot = 0
    <3>1. ASSUME NEW f \in Firsts, SlotRole(f, 1) \in Asked PROVE FALSE
      BY <2>2, <3>1 DEF SlotRole, Numbered
    <3>2. QED BY <2>1, <3>1 DEF GivenFrom
  <2>4. WireName(role) = <<first, 0>> /\ UploadOf(announced) = <<first, 0>>
    BY <1>5, <2>3 DEF WireName, UploadOf, Firsts
  <2>5. QED BY <2>3, <2>4 DEF Uploaded
<1>6. ASSUME announced \in params.given, announced[1] = "contextImage"
      PROVE  UploadOf(announced) \in Uploaded
  <2>1. PICK role \in Asked : announced = <<role.name, role.slot>>
    BY <1>1, <1>6 DEF ComesFrom, GivenFrom, Firsts
  <2>2. role.name = "contextImage"
    BY <1>6, <2>1
  <2>3. WireName(role) = announced /\ UploadOf(announced) = announced
    BY <2>1, <2>2 DEF WireName, UploadOf
  <2>4. QED BY <2>3 DEF Uploaded
<1>7. ASSUME NEW slot \in DOMAIN params.keyframes, announced = <<"keyframeImage", slot>>
      PROVE  UploadOf(announced) \in Uploaded
  <2>1. params.keyframes \in Seq(KeyframeEntries)
    BY <1>1 DEF ParamsSet
  <2>2. params.keyframes # <<>>
    BY <1>7, <2>1
  <2>3. Len(params.keyframes) <= 8 /\ params.keyframes[slot].image
    BY <1>7, <2>2 DEF AssetsFit, KeyframesFit
  <2>4. slot <= 8
    BY <1>7, <2>1, <2>3
  <2>5. KeyframeRole(slot) \in Asked
    BY <1>1, <1>7, <2>3, <2>4 DEF ComesFrom
  <2>6. WireName(KeyframeRole(slot)) = announced /\ UploadOf(announced) = announced
    BY <1>7 DEF WireName, UploadOf, KeyframeRole
  <2>7. QED BY <2>5, <2>6 DEF Uploaded
<1>8. \/ \E name \in {"referenceImage", "referenceImageEnd", "referenceAudioIdentity", "referenceMask"} :
           Given(params, name) /\ announced = <<name, 0>>
      \/ \E first \in Firsts : H3Reference /\ \E slot \in 1 .. Slots(params, first) :
           announced = <<first, slot>>
      \/ \E first \in Firsts : ~H3Reference /\ Given(params, first) /\ announced = <<first, 0>>
      \/ announced \in params.given /\ announced[1] = "contextImage"
      \/ \E slot \in DOMAIN params.keyframes : announced = <<"keyframeImage", slot>>
  BY DEF Announced, Firsts
<1>9. QED BY <1>3, <1>4, <1>5, <1>6, <1>7, <1>8

(***************************************************************************)
(* The frames of a video are a number.                                     *)
(***************************************************************************)
LEMMA FramesTyped ==
  ASSUME ConstantsAreSound, RequestTyped
  PROVE  Frames \in Int
<1>1. PICK frames, duration, fps : /\ frames = request.length.frames
                                   /\ duration = request.length.duration
                                   /\ fps = request.length.fps
  OBVIOUS
<1>2. frames \in Nat /\ duration \in Nat /\ fps \in Nat
  BY <1>1 DEF ConstantsAreSound, RequestTyped
<1>3. ASSUME NEW n \in Int, NEW d \in Nat \ {0} PROVE Round(n, d) \in Int
  BY DEF Round
<1>4. ASSUME NEW rate \in Nat PROVE VideoFrames(duration, rate) \in Int
  <2>1. Round(duration * 24 - 124, 17) \in Int /\ Round(duration * rate, 8) \in Int
    BY <1>2, <1>3
  <2>2. duration * rate \in Int
    BY <1>2
  <2>3. QED BY <1>2, <2>1, <2>2 DEF VideoFrames
<1>5. PICK rate \in Nat : rate = IF fps # 0 THEN fps
                              ELSE IF model.family \in {"wan3", "wan3 enhanced"} THEN 30 ELSE 24
  BY <1>2
<1>6. Frames = IF duration # 0 /\ ~(model.family = "upscale" /\ frames # 0)
                 THEN VideoFrames(duration, rate) ELSE frames
  BY <1>1, <1>5 DEF Frames
<1>7. CASE duration # 0 /\ ~(model.family = "upscale" /\ frames # 0)
  BY <1>4, <1>6, <1>7
<1>8. CASE ~(duration # 0 /\ ~(model.family = "upscale" /\ frames # 0))
  BY <1>2, <1>6, <1>8
<1>9. QED BY <1>7, <1>8

(***************************************************************************)
(* The invariant.                                                          *)
(***************************************************************************)
UploadedSoFar ==
  /\ registered \in Seq(Names \X Nat) /\ Len(registered) <= Len(request.assets)
  /\ \A i \in DOMAIN registered : registered[i] = WireName(request.assets[i])
  /\ stage = "tracked" => Len(registered) = Len(request.assets)

IInv ==
  /\ RequestTyped /\ stage \in {"building", "refused", "uploading", "tracked"}
  /\ stage = "building" => KeyframesHaveImages /\ registered = <<>>
  /\ stage \in {"uploading", "tracked"} => Promised /\ UploadedSoFar
  /\ PinsInside

LEMMA InitHolds == ASSUME ConstantsAreSound, Init PROVE IInv
<1>1. PICK urls \in Links, length \in Lengths, inpaint, document \in BOOLEAN,
           task \in {"none", "reference", "edit"} :
        /\ urls # {} => External \/ (H3Reference /\ length.duration = 0)
        /\ task # "none" => model.family = "seedance25"
        /\ document => model.family \in {"wan3", "wan3 enhanced"}
        /\ inpaint => model.workflow = "v2v"
        /\ request = [assets |-> <<>>, keyframes |-> <<>>, urls |-> urls, document |-> document,
                      task |-> task, inpaint |-> inpaint, length |-> length]
  BY Zenon DEF Init
<1>2. RequestTyped /\ request.keyframes = <<>>
  <2>1. <<>> \in Seq(AssetRoles) /\ <<>> \in Seq(KeyframeEntries)
    OBVIOUS
  <2>2. /\ DOMAIN request = {"assets", "keyframes", "urls", "document", "task", "inpaint", "length"}
        /\ request.assets = <<>> /\ request.keyframes = <<>> /\ request.length = length
    BY <1>1
  <2>3. QED BY <2>1, <2>2 DEF RequestTyped
<1>3. KeyframesHaveImages
  <2>1. DOMAIN <<>> = {}
    OBVIOUS
  <2>2. QED BY <1>2, <2>1 DEF KeyframesHaveImages
<1>4. PinsInside
  <2>1. wire.pins = <<>>
    BY DEF Init
  <2>2. DOMAIN <<>> = {}
    OBVIOUS
  <2>3. QED BY <2>1, <2>2 DEF PinsInside
<1>5. QED BY <1>2, <1>3, <1>4 DEF Init, IInv

LEMMA AddAssetKeeps == ASSUME IInv, AddAsset PROVE IInv'
<1>1. PICK role \in Roles : request' = [request EXCEPT !.assets = Append(@, role)]
  BY DEF AddAsset
<1>2. role \in AssetRoles
  BY DEF Roles, Plain, AssetRoles, Names, Slotted, Numbered
<1>3. request.assets \in Seq(AssetRoles) /\ RequestTyped /\ stage = "building"
  BY DEF IInv, AddAsset, RequestTyped
<1>4. PICK assets : assets = Append(request.assets, role)
  OBVIOUS
<1>5. assets \in Seq(AssetRoles)
  BY <1>2, <1>3, <1>4
<1>6. /\ RequestTyped' /\ request'.assets = assets
      /\ request'.keyframes = request.keyframes
  BY <1>1, <1>3, <1>4, <1>5 DEF RequestTyped
<1>7. Asked \subseteq ToSet(request'.assets)
  <2> SUFFICES ASSUME NEW i \in DOMAIN request.assets
               PROVE  request.assets[i] \in ToSet(request'.assets)
    BY DEF Asked, ToSet
  <2>1. i \in DOMAIN assets /\ assets[i] = request.assets[i]
    BY <1>3, <1>4
  <2>2. QED BY <1>6, <2>1 DEF ToSet
<1>8. KeyframesHaveImages'
  BY <1>3, <1>6, <1>7 DEF KeyframesHaveImages, KeyframeRole, Asked, IInv
<1>9. /\ stage' = stage /\ registered' = registered /\ wire' = wire
  BY DEF AddAsset
<1>10. PinsInside'
  BY <1>9 DEF PinsInside, IInv
<1>11. QED BY <1>3, <1>6, <1>8, <1>9, <1>10 DEF IInv

LEMMA PinKeyframesKeeps == ASSUME ConstantsAreSound, IInv, PinKeyframes PROVE IInv'
<1>1. PICK pins \in Pins :
        request' = [request EXCEPT
          !.keyframes = [i \in DOMAIN pins |-> [image |-> TRUE, index |-> pins[i]]],
          !.assets = Others \o [i \in {n \in DOMAIN pins : n <= 8} |-> [name |-> "keyframeImage", slot |-> i]]]
  BY DEF PinKeyframes
<1>2. /\ pins \in Seq(Nat) /\ RequestTyped /\ stage = "building"
  BY DEF IInv, PinKeyframes, ConstantsAreSound
<1>3. PICK frames, images, others :
        /\ frames = [i \in DOMAIN pins |-> [image |-> TRUE, index |-> pins[i]]]
        /\ images = [i \in {n \in DOMAIN pins : n <= 8} |-> KeyframeRole(i)]
        /\ others = Others
  OBVIOUS
<1>4. frames \in Seq(KeyframeEntries) /\ DOMAIN frames = DOMAIN pins
  <2>1. Len(pins) \in Nat /\ DOMAIN pins = 1 .. Len(pins)
    BY <1>2
  <2>2. frames \in [1 .. Len(pins) -> KeyframeEntries]
    BY <1>2, <1>3, <2>1 DEF KeyframeEntries
  <2>3. QED BY <2>1, <2>2, IsSequence
<1>5. PICK k \in Nat : {n \in DOMAIN pins : n <= 8} = 1 .. k
  <2>1. PICK m \in Nat : DOMAIN pins = 1 .. m
    <3>1. Len(pins) \in Nat /\ DOMAIN pins = 1 .. Len(pins)
      BY <1>2
    <3>2. QED BY <3>1
  <2>2. CASE m < 8
    <3>1. {n \in 1 .. m : n <= 8} = 1 .. m
      BY <2>2
    <3>2. QED BY <2>1, <3>1
  <2>3. CASE ~ (m < 8)
    <3>1. {n \in 1 .. m : n <= 8} = 1 .. 8
      BY <2>3
    <3>2. QED BY <2>1, <3>1
  <2>4. QED BY <2>2, <2>3
<1>6. images \in Seq(AssetRoles) /\ DOMAIN images = 1 .. k /\ Len(images) = k
  <2>1. images \in [1 .. k -> AssetRoles]
    BY <1>3, <1>5 DEF KeyframeRole, AssetRoles, Names, Slotted
  <2>2. QED BY <2>1, IsSequence
<1>7. others \in Seq(AssetRoles)
  BY <1>2, <1>3, OthersTyped DEF RequestTyped
<1>8. PICK assets : assets = others \o images
  OBVIOUS
<1>9. assets \in Seq(AssetRoles) /\ Len(assets) = Len(others) + k
      /\ \A i \in 1 .. k : assets[Len(others) + i] = images[i]
  <2>1. PICK n \in Nat : n = Len(others)
    BY <1>7
  <2>2. /\ assets \in Seq(AssetRoles) /\ Len(assets) = Len(others) + Len(images)
        /\ \A i \in 1 .. Len(others) + Len(images) :
             assets[i] = IF i <= Len(others) THEN others[i] ELSE images[i - Len(others)]
    BY <1>6, <1>7, <1>8, ConcatProperties
  <2>3. ASSUME NEW i \in 1 .. k PROVE assets[n + i] = images[i]
    <3>1. n + i \in 1 .. n + k /\ ~ (n + i <= n) /\ (n + i) - n = i
      BY <2>1
    <3>2. QED BY <1>6, <2>1, <2>2, <3>1
  <2>4. QED BY <1>6, <2>1, <2>2, <2>3
<1>10. request' = [request EXCEPT !.keyframes = frames, !.assets = assets]
  BY <1>1, <1>3, <1>8 DEF KeyframeRole
<1>11. RequestTyped' /\ request'.assets = assets /\ request'.keyframes = frames
  BY <1>2, <1>4, <1>9, <1>10 DEF RequestTyped
<1>12. KeyframesHaveImages'
  <2> SUFFICES ASSUME NEW i \in DOMAIN frames, i <= 8
               PROVE  KeyframeRole(i) \in ToSet(assets)
    BY <1>11 DEF KeyframesHaveImages, Asked, KeyframeRole
  <2>1. i \in 1 .. k /\ images[i] = KeyframeRole(i)
    <3>1. i \in DOMAIN pins /\ DOMAIN pins = 1 .. Len(pins)
      BY <1>2, <1>4
    <3>2. i \in {n \in DOMAIN pins : n <= 8}
      BY <1>2, <3>1
    <3>3. QED BY <1>3, <1>5, <3>2
  <2>2. Len(others) + i \in DOMAIN assets
    BY <1>7, <1>9, <2>1
  <2>3. QED BY <1>9, <2>1, <2>2 DEF ToSet
<1>13. /\ stage' = stage /\ registered' = registered /\ wire' = wire
  BY DEF PinKeyframes
<1>14. PinsInside'
  BY <1>13 DEF PinsInside, IInv
<1>15. QED BY <1>2, <1>11, <1>12, <1>13, <1>14 DEF IInv

LEMMA PrepareKeeps == ASSUME ConstantsAreSound, IInv, Prepare PROVE IInv'
<1>1. /\ RequestTyped /\ stage = "building" /\ KeyframesHaveImages /\ registered = <<>>
      /\ request.assets \in Seq(AssetRoles) /\ PinsInside
      /\ registered' = registered /\ model' = model
  BY DEF IInv, Prepare, RequestTyped
<1>2. CASE RolesFit /\ AssetsFit(Params) /\ LengthFits /\ PinsFit(Params, Frames)
  <2>1. /\ wire' = [assets |-> Announced(Params), frames |-> Frames, pins |-> Indices(Params)]
        /\ stage' = "uploading" /\ request' = request
    BY <1>2 DEF Prepare
  <2>2. Promised'
    <3>1. Params \in Sound
      BY <1>1, ParamsSound
    <3>2. \A announced \in Announced(Params) : UploadOf(announced) \in Uploaded
      BY <1>1, <1>2, <3>1, AnnouncedIsUploaded
    <3>3. Uploaded' = Uploaded
      BY <1>1, <2>1 DEF Uploaded, WireName, Asked, H3Reference, H3
    <3>4. wire'.assets = Announced(Params)
      BY <2>1
    <3>5. QED BY <3>2, <3>3, <3>4 DEF Promised, UploadOf
  <2>3. UploadedSoFar'
    <3>1. <<>> \in Seq(Names \X Nat) /\ Len(<<>>) = 0 /\ DOMAIN <<>> = {}
      OBVIOUS
    <3>2. Len(request.assets) >= 0
      BY <1>1
    <3>3. registered' = <<>> /\ request' = request /\ stage' # "tracked"
      BY <1>1, <2>1
    <3>4. QED BY <3>1, <3>2, <3>3 DEF UploadedSoFar
  <2>4. PinsInside'
    <3>1. PICK pins, frames : pins = Indices(Params) /\ frames = Frames
      OBVIOUS
    <3>2. frames \in Int
      BY <1>1, <3>1, FramesTyped
    <3>3. \A i \in DOMAIN pins : pins[i] \in 1 .. frames - 2
      BY <1>2, <3>1 DEF PinsFit, Range
    <3>4. wire'.pins = pins /\ wire'.frames = frames
      BY <2>1, <3>1
    <3>5. QED BY <3>2, <3>3, <3>4 DEF PinsInside
  <2>5. QED BY <1>1, <2>1, <2>2, <2>3, <2>4 DEF IInv, RequestTyped
<1>3. CASE ~(RolesFit /\ AssetsFit(Params) /\ LengthFits /\ PinsFit(Params, Frames))
  <2>1. /\ stage' = "refused" /\ wire' = wire
        /\ request' = [request EXCEPT !.assets = <<>>, !.keyframes = <<>>]
    BY <1>3 DEF Prepare
  <2>2. RequestTyped'
    BY <1>1, <2>1 DEF RequestTyped
  <2>3. PinsInside'
    BY <1>1, <2>1 DEF PinsInside
  <2>4. QED BY <2>1, <2>2, <2>3 DEF IInv
<1>4. QED BY <1>2, <1>3

LEMMA UploadKeeps == ASSUME IInv, Upload PROVE IInv'
<1>1. /\ RequestTyped /\ stage = "uploading" /\ Promised /\ UploadedSoFar
      /\ request.assets \in Seq(AssetRoles) /\ PinsInside
      /\ request' = request /\ model' = model /\ wire' = wire
  BY DEF IInv, Upload, RequestTyped
<1>2. Promised'
  <2>1. Uploaded' = Uploaded
    BY <1>1 DEF Uploaded, WireName, Asked, H3Reference, H3
  <2>2. QED BY <1>1, <2>1 DEF Promised, UploadOf
<1>3. PinsInside'
  BY <1>1 DEF PinsInside
<1>4. \A role \in AssetRoles : WireName(role)' = WireName(role)
  BY <1>1 DEF WireName, H3Reference, H3
<1>5. CASE Len(registered) < Len(request.assets)
  <2>1. PICK n, role : n = Len(registered) /\ role = request.assets[n + 1] /\ n \in Nat
    BY <1>1 DEF UploadedSoFar
  <2>2. role \in AssetRoles
    BY <1>1, <1>5, <2>1
  <2>3. PICK name : name = WireName(role)
    OBVIOUS
  <2>4. name \in Names \X Nat
    BY <2>2, <2>3 DEF WireName, AssetRoles, Names
  <2>5. registered' = Append(registered, name) /\ stage' = stage
    BY <1>1, <1>5, <2>1, <2>3 DEF Upload
  <2>6. registered \in Seq(Names \X Nat) /\ Len(registered) = n
    BY <1>1, <2>1 DEF UploadedSoFar
  <2>7. registered' \in Seq(Names \X Nat) /\ Len(registered') = n + 1
    BY <2>4, <2>5, <2>6
  <2>8. ASSUME NEW i \in DOMAIN registered'
        PROVE  registered'[i] = WireName(request.assets[i])
    <3>1. CASE i = n + 1
      BY <2>1, <2>3, <2>5, <2>6, <3>1
    <3>2. CASE i # n + 1
      <4>1. i \in DOMAIN registered /\ registered'[i] = registered[i]
        BY <2>4, <2>5, <2>6, <2>7, <2>8, <3>2
      <4>2. QED BY <1>1, <4>1 DEF UploadedSoFar
    <3>3. QED BY <3>1, <3>2
  <2>9. \A i \in DOMAIN registered' : registered'[i] = WireName(request.assets[i])'
    <3>1. ASSUME NEW i \in DOMAIN registered' PROVE request.assets[i] \in AssetRoles
      BY <1>1, <1>5, <2>1, <2>7
    <3>2. QED BY <1>1, <1>4, <2>8, <3>1 DEF WireName, H3Reference, H3
  <2>10. UploadedSoFar'
    BY <1>1, <1>5, <2>1, <2>5, <2>7, <2>9 DEF UploadedSoFar
  <2>11. QED BY <1>1, <1>2, <1>3, <2>5, <2>10 DEF IInv, RequestTyped
<1>6. CASE ~ (Len(registered) < Len(request.assets))
  <2>1. stage' = "tracked" /\ registered' = registered
    BY <1>1, <1>6 DEF Upload
  <2>2. Len(registered) = Len(request.assets)
    BY <1>1, <1>6 DEF UploadedSoFar
  <2>3. \A i \in DOMAIN registered : registered[i] = WireName(request.assets[i])'
    <3>1. ASSUME NEW i \in DOMAIN registered PROVE request.assets[i] \in AssetRoles
      BY <1>1, <2>2 DEF UploadedSoFar
    <3>2. QED BY <1>1, <1>4, <3>1 DEF UploadedSoFar, WireName, H3Reference, H3
  <2>4. UploadedSoFar'
    BY <1>1, <2>1, <2>2, <2>3 DEF UploadedSoFar
  <2>5. QED BY <1>1, <1>2, <1>3, <2>1, <2>4 DEF IInv, RequestTyped
<1>7. QED BY <1>5, <1>6

(***************************************************************************)
(* The theorems.                                                           *)
(***************************************************************************)
(* The inductive invariant: what is marked and announced comes from the assets *)
LEMMA InvariantHolds == ASSUME ConstantsAreSound PROVE Spec => []IInv
<1>1. Init => IInv
  BY InitHolds
<1>2. IInv /\ [Next]_vars => IInv'
  <2> SUFFICES ASSUME IInv, [Next]_vars PROVE IInv'
    OBVIOUS
  <2>1. CASE AddAsset
    BY <2>1, AddAssetKeeps
  <2>2. CASE PinKeyframes
    BY <2>2, PinKeyframesKeeps
  <2>3. CASE Prepare
    BY <2>3, PrepareKeeps
  <2>4. CASE Upload
    BY <2>4, UploadKeeps
  <2>5. CASE UNCHANGED vars
    <3>1. /\ model' = model /\ request' = request /\ stage' = stage /\ wire' = wire
          /\ registered' = registered
      BY <2>5 DEF vars
    <3>2. RequestTyped' /\ (KeyframesHaveImages => KeyframesHaveImages') /\ PinsInside'
      BY <3>1 DEF IInv, RequestTyped, KeyframesHaveImages, KeyframeRole, Asked, PinsInside
    <3>3. Uploaded' = Uploaded
      BY <3>1 DEF Uploaded, WireName, Asked, H3Reference, H3
    <3>4. Promised => Promised'
      BY <3>1, <3>3 DEF Promised, UploadOf
    <3>5. UploadedSoFar => UploadedSoFar'
      <4>1. ASSUME NEW i \in DOMAIN registered
            PROVE  WireName(request.assets[i])' = WireName(request.assets[i])
        BY <3>1 DEF WireName, H3Reference, H3
      <4>2. QED BY <3>1, <4>1 DEF UploadedSoFar
    <3>6. QED BY <3>1, <3>2, <3>4, <3>5 DEF IInv
  <2>6. QED BY <2>1, <2>2, <2>3, <2>4, <2>5 DEF Next
<1>3. QED BY <1>1, <1>2, PTL DEF Spec

(* A keyframe that keyframe_indices lets through lies strictly inside the video that is   *)
(* made, for every length in frames or seconds and every list of pins.                    *)
THEOREM PinsAreInside == ASSUME ConstantsAreSound PROVE Spec => []PinsInside
<1>1. IInv => PinsInside
  BY DEF IInv
<1>2. QED BY <1>1, InvariantHolds, PTL

(* A worker finds every asset that a tracked job request announces, however many assets   *)
(* were added in whatever order: mark_asset_param marks no parameter without its asset,   *)
(* and validation refuses the requests whose slots have gaps.                             *)
THEOREM PromisesAreKept == ASSUME ConstantsAreSound PROVE Spec => []PromisedAreUploaded
<1>1. IInv => PromisedAreUploaded
  <2> SUFFICES ASSUME IInv, stage = "tracked", NEW announced \in wire.assets
               PROVE  UploadOf(announced) \in ToSet(registered)
    BY DEF PromisedAreUploaded
  <2>1. UploadOf(announced) \in Uploaded /\ UploadedSoFar /\ request.assets \in Seq(AssetRoles)
    BY DEF IInv, Promised, RequestTyped
  <2>2. PICK i \in DOMAIN request.assets : UploadOf(announced) = WireName(request.assets[i])
    BY <2>1 DEF Uploaded, Asked, ToSet
  <2>3. i \in DOMAIN registered
    BY <2>1 DEF UploadedSoFar
  <2>4. registered[i] = UploadOf(announced)
    BY <2>1, <2>2, <2>3 DEF UploadedSoFar
  <2>5. QED BY <2>3, <2>4 DEF ToSet
<1>2. QED BY <1>1, InvariantHolds, PTL
================================================================================
