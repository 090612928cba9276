----------------------- MODULE ChannelRegistryProofs ------------------------
(***************************************************************************)
(* Proofs about ChannelRegistry, for any Lua states, handles and channels, *)
(* where the host program opens the library in one state: its tasks may    *)
(* create any number of further ones.                                      *)
(***************************************************************************)
EXTENDS ChannelRegistry, FiniteSetTheorems, TLAPS

\* The host program has one Lua state.
OneHost == \A s, t \in Host : s = t

\* The loop of init_channel is left before anybody uses the registry, and nobody
\* is in it afterwards.
Initialised ==
  /\ \A s \in State : opened[s] = "yes" => init
  /\ \A s \in State : opened[s] \in {"setup", "mark"} => s \in Host /\ ~ init
  /\ ~ init => channels = {}

\* A state has a channel in hand exactly while it is in a call.
Frames == \A s \in State : pc[s] = "idle" <=> con[s] = NoChannel

\* No channel is in the registry before it was created.
Fresh == channels \subseteq 1..next_id

Shape == TypeOK /\ Initialised /\ Frames /\ Fresh

IInv == Shape /\ RefsAccounted /\ NoUseAfterFree

\* Handles are a finite set.
LEMMA HandlesFinite == IsFiniteSet(Handle)
  BY RegistryAssumption, FS_Product DEF Handle

\* The counts are natural numbers, and whoever is counted keeps the channel alive.
LEMMA Counted ==
  ASSUME TypeOK, NEW c \in Channel
  PROVE  /\ Cardinality(HandlesOn(c)) \in Nat /\ Cardinality(CallsOn(c)) \in Nat
         /\ lost[c] \in Nat /\ ref[c] \in Nat
         /\ \A h \in Handle : held[h] = c => Cardinality(HandlesOn(c)) > 0
         /\ \A s \in State : con[s] = c => Cardinality(CallsOn(c)) > 0
<1>1. IsFiniteSet(HandlesOn(c)) /\ IsFiniteSet(CallsOn(c))
  BY HandlesFinite, RegistryAssumption, FS_Subset DEF HandlesOn, CallsOn
<1>2. Cardinality(HandlesOn(c)) \in Nat /\ Cardinality(CallsOn(c)) \in Nat
  BY <1>1, FS_CardinalityType
<1>3. ASSUME NEW h \in Handle, held[h] = c PROVE Cardinality(HandlesOn(c)) > 0
  <2>1. HandlesOn(c) # {}
    BY <1>3 DEF HandlesOn
  <2>2. QED
    BY <1>1, <1>2, <2>1, FS_EmptySet
<1>4. ASSUME NEW s \in State, con[s] = c PROVE Cardinality(CallsOn(c)) > 0
  <2>1. CallsOn(c) # {}
    BY <1>4 DEF CallsOn
  <2>2. QED
    BY <1>1, <1>2, <2>1, FS_EmptySet
<1>5. lost[c] \in Nat /\ ref[c] \in Nat
  BY RegistryAssumption DEF TypeOK
<1>6. QED
  BY <1>2, <1>3, <1>4, <1>5

\* A call begins.
LEMMA CallBegins ==
  ASSUME TypeOK, NEW s \in State, NEW c \in Channel, con[s] = NoChannel, con' = [con EXCEPT ![s] = c],
         NEW k \in Channel
  PROVE  Cardinality(CallsOn(k)') = Cardinality(CallsOn(k)) + IF k = c THEN 1 ELSE 0
<1>1. con'[s] = c /\ \A y \in State : y # s => con'[y] = con[y]
  BY DEF TypeOK
<1>2. IsFiniteSet(CallsOn(k)) /\ Cardinality(CallsOn(k)) \in Nat
  BY RegistryAssumption, FS_Subset, FS_CardinalityType DEF CallsOn
<1>3. c # NoChannel /\ k # NoChannel
  BY RegistryAssumption
<1>4. CASE k = c
  <2>1. CallsOn(k)' = CallsOn(k) \cup {s} /\ s \notin CallsOn(k)
    BY <1>1, <1>3, <1>4 DEF CallsOn
  <2>2. Cardinality(CallsOn(k) \cup {s}) = Cardinality(CallsOn(k)) + 1
    BY <1>2, <2>1, FS_AddElement
  <2>3. QED
    BY <1>2, <1>4, <2>1, <2>2
<1>5. CASE k # c
  <2>1. CallsOn(k)' = CallsOn(k)
    BY <1>1, <1>3, <1>5 DEF CallsOn
  <2>2. QED
    BY <1>2, <1>5, <2>1
<1>6. QED
  BY <1>4, <1>5

\* A call ends, or its reference becomes that of a handle.
LEMMA CallEnds ==
  ASSUME TypeOK, NEW s \in State, NEW c \in Channel, con[s] = c, con' = [con EXCEPT ![s] = NoChannel],
         NEW k \in Channel
  PROVE  Cardinality(CallsOn(k)') = Cardinality(CallsOn(k)) - IF k = c THEN 1 ELSE 0
<1>1. con'[s] = NoChannel /\ \A y \in State : y # s => con'[y] = con[y]
  BY DEF TypeOK
<1>2. IsFiniteSet(CallsOn(k)) /\ Cardinality(CallsOn(k)) \in Nat
  BY RegistryAssumption, FS_Subset, FS_CardinalityType DEF CallsOn
<1>3. c # NoChannel /\ k # NoChannel
  BY RegistryAssumption
<1>4. CASE k = c
  <2>1. CallsOn(k)' = CallsOn(k) \ {s} /\ s \in CallsOn(k)
    BY <1>1, <1>3, <1>4 DEF CallsOn
  <2>2. Cardinality(CallsOn(k) \ {s}) = Cardinality(CallsOn(k)) - 1
    BY <1>2, <2>1, FS_RemoveElement
  <2>3. QED
    BY <1>2, <1>4, <2>1, <2>2
<1>5. CASE k # c
  <2>1. CallsOn(k)' = CallsOn(k)
    BY <1>1, <1>3, <1>5 DEF CallsOn
  <2>2. QED
    BY <1>2, <1>5, <2>1
<1>6. QED
  BY <1>4, <1>5

\* A handle is made.
LEMMA HandleMade ==
  ASSUME TypeOK, NEW h \in Handle, NEW c \in Channel, held[h] = NoChannel, held' = [held EXCEPT ![h] = c],
         NEW k \in Channel
  PROVE  Cardinality(HandlesOn(k)') = Cardinality(HandlesOn(k)) + IF k = c THEN 1 ELSE 0
<1>1. held'[h] = c /\ \A y \in Handle : y # h => held'[y] = held[y]
  BY DEF TypeOK
<1>2. IsFiniteSet(HandlesOn(k)) /\ Cardinality(HandlesOn(k)) \in Nat
  BY HandlesFinite, FS_Subset, FS_CardinalityType DEF HandlesOn
<1>3. c # NoChannel /\ k # NoChannel
  BY RegistryAssumption
<1>4. CASE k = c
  <2>1. HandlesOn(k)' = HandlesOn(k) \cup {h} /\ h \notin HandlesOn(k)
    BY <1>1, <1>3, <1>4 DEF HandlesOn
  <2>2. Cardinality(HandlesOn(k) \cup {h}) = Cardinality(HandlesOn(k)) + 1
    BY <1>2, <2>1, FS_AddElement
  <2>3. QED
    BY <1>2, <1>4, <2>1, <2>2
<1>5. CASE k # c
  <2>1. HandlesOn(k)' = HandlesOn(k)
    BY <1>1, <1>3, <1>5 DEF HandlesOn
  <2>2. QED
    BY <1>2, <1>5, <2>1
<1>6. QED
  BY <1>4, <1>5

\* A handle is collected.
LEMMA HandleGone ==
  ASSUME TypeOK, NEW h \in Handle, NEW c \in Channel, held[h] = c, held' = [held EXCEPT ![h] = NoChannel],
         NEW k \in Channel
  PROVE  Cardinality(HandlesOn(k)') = Cardinality(HandlesOn(k)) - IF k = c THEN 1 ELSE 0
<1>1. held'[h] = NoChannel /\ \A y \in Handle : y # h => held'[y] = held[y]
  BY DEF TypeOK
<1>2. IsFiniteSet(HandlesOn(k)) /\ Cardinality(HandlesOn(k)) \in Nat
  BY HandlesFinite, FS_Subset, FS_CardinalityType DEF HandlesOn
<1>3. c # NoChannel /\ k # NoChannel
  BY RegistryAssumption
<1>4. CASE k = c
  <2>1. HandlesOn(k)' = HandlesOn(k) \ {h} /\ h \in HandlesOn(k)
    BY <1>1, <1>3, <1>4 DEF HandlesOn
  <2>2. Cardinality(HandlesOn(k) \ {h}) = Cardinality(HandlesOn(k)) - 1
    BY <1>2, <2>1, FS_RemoveElement
  <2>3. QED
    BY <1>2, <1>4, <2>1, <2>2
<1>5. CASE k # c
  <2>1. HandlesOn(k)' = HandlesOn(k)
    BY <1>1, <1>3, <1>5 DEF HandlesOn
  <2>2. QED
    BY <1>2, <1>5, <2>1
<1>6. QED
  BY <1>4, <1>5

\* Whoever has a channel in hand, or a handle on it, finds it in the registry.
LEMMA HolderAlive ==
  ASSUME TypeOK, RefsAccounted, NEW c \in Channel
  PROVE  /\ \A h \in Handle : held[h] = c => c \in channels
         /\ \A s \in State : con[s] = c => c \in channels
  BY Counted DEF RefsAccounted

\* Every step keeps the types, the contents of the frames and the phases of the
\* initialisation.  That a count stays positive is what the references are for.
LEMMA StepShape == OneHost /\ Shape /\ RefsAccounted /\ [Next]_vars => Shape'
<1> SUFFICES ASSUME OneHost, Shape, RefsAccounted, [Next]_vars PROVE Shape'
  OBVIOUS
<1> USE RegistryAssumption DEF Shape, CallPhase
<1>1. ASSUME NEW s \in State, OpenTest(s) PROVE Shape'
  <2>1. TypeOK'
    BY <1>1 DEF OpenTest, Opening, TypeOK, Frames
  <2>2. Initialised'
    BY <1>1 DEF OpenTest, Opening, TypeOK, Initialised, OneHost
  <2>3. Frames'
    BY <1>1 DEF OpenTest, Opening, TypeOK, Frames
  <2>4. Fresh'
    BY <1>1 DEF OpenTest, Opening, TypeOK, Fresh
  <2>5. QED
    BY <2>1, <2>2, <2>3, <2>4
<1>2. ASSUME NEW s \in State, OpenSetup(s) PROVE Shape'
  <2>1. TypeOK'
    BY <1>2 DEF OpenSetup, Opening, TypeOK, Frames
  <2>2. Initialised'
    BY <1>2 DEF OpenSetup, Opening, TypeOK, Initialised, OneHost
  <2>3. Frames'
    BY <1>2 DEF OpenSetup, Opening, TypeOK, Frames
  <2>4. Fresh'
    BY <1>2 DEF OpenSetup, Opening, TypeOK, Fresh
  <2>5. QED
    BY <2>1, <2>2, <2>3, <2>4
<1>3. ASSUME NEW s \in State, OpenMark(s) PROVE Shape'
  <2>1. TypeOK'
    BY <1>3 DEF OpenMark, Opening, TypeOK, Frames
  <2>2. Initialised'
    BY <1>3 DEF OpenMark, Opening, TypeOK, Initialised, OneHost
  <2>3. Frames'
    BY <1>3 DEF OpenMark, Opening, TypeOK, Frames
  <2>4. Fresh'
    BY <1>3 DEF OpenMark, Opening, TypeOK, Fresh
  <2>5. QED
    BY <2>1, <2>2, <2>3, <2>4
<1>4. ASSUME NEW s \in State, New(s) PROVE Shape'
  <2>1. TypeOK'
    BY <1>4 DEF New, Enter, InLua, setup, Channel, TypeOK, Frames
  <2>2. Initialised'
    BY <1>4 DEF New, Enter, InLua, setup, Channel, TypeOK, Initialised, OneHost
  <2>3. Frames'
    BY <1>4 DEF New, Enter, InLua, setup, Channel, TypeOK, Frames
  <2>4. Fresh'
    BY <1>4 DEF New, Enter, InLua, setup, Channel, TypeOK, Fresh
  <2>5. QED
    BY <2>1, <2>2, <2>3, <2>4
<1>5. ASSUME NEW s \in State, NEW c \in Channel, Connect(s, c) PROVE Shape'
  <2>a. ref' \in [Channel -> Nat]
    BY <1>5 DEF Connect, Ref, TypeOK
  <2>1. TypeOK'
    BY <2>a, <1>5 DEF Connect, Ref, Enter, InLua, setup, TypeOK, Frames
  <2>2. Initialised'
    BY <1>5 DEF Connect, Ref, Enter, InLua, setup, TypeOK, Initialised, OneHost
  <2>3. Frames'
    BY <1>5 DEF Connect, Ref, Enter, InLua, setup, TypeOK, Frames
  <2>4. Fresh'
    BY <1>5 DEF Connect, Ref, Enter, InLua, setup, TypeOK, Fresh
  <2>5. QED
    BY <2>1, <2>2, <2>3, <2>4
<1>6. ASSUME NEW s \in State, NEW i \in Slot, Call(s, i) PROVE Shape'
  <2>a. ref' \in [Channel -> Nat] /\ held[<<s, i>>] \in Channel
    BY <1>6 DEF Call, Ref, Handle, TypeOK
  <2>1. TypeOK'
    BY <2>a, <1>6 DEF Handle, Call, Ref, Enter, InLua, setup, TypeOK, Frames
  <2>2. Initialised'
    BY <1>6 DEF Handle, Call, Ref, Enter, InLua, setup, TypeOK, Initialised, OneHost
  <2>3. Frames'
    BY <1>6 DEF Handle, Call, Ref, Enter, InLua, setup, TypeOK, Frames
  <2>4. Fresh'
    BY <1>6 DEF Handle, Call, Ref, Enter, InLua, setup, TypeOK, Fresh
  <2>5. QED
    BY <2>1, <2>2, <2>3, <2>4
<1>7. ASSUME NEW s \in State, NEW i \in Slot, Collect(s, i) PROVE Shape'
  <2>1. TypeOK'
    BY <1>7 DEF Handle, Collect, Enter, Leave, InLua, setup, TypeOK, Frames
  <2>2. Initialised'
    BY <1>7 DEF Handle, Collect, Enter, Leave, InLua, setup, TypeOK, Initialised, OneHost
  <2>3. Frames'
    BY <1>7 DEF Handle, Collect, Enter, Leave, InLua, setup, TypeOK, Frames
  <2>4. Fresh'
    BY <1>7 DEF Handle, Collect, Enter, Leave, InLua, setup, TypeOK, Fresh
  <2>5. QED
    BY <2>1, <2>2, <2>3, <2>4
<1>8. ASSUME NEW s \in State, Find(s) PROVE Shape'
  <2>1. TypeOK'
    BY <1>8 DEF Find, Enter, Leave, setup, TypeOK, Frames
  <2>2. Initialised'
    BY <1>8 DEF Find, Enter, Leave, setup, TypeOK, Initialised, OneHost
  <2>3. Frames'
    BY <1>8 DEF Find, Enter, Leave, setup, TypeOK, Frames
  <2>4. Fresh'
    BY <1>8 DEF Find, Enter, Leave, setup, TypeOK, Fresh
  <2>5. QED
    BY <2>1, <2>2, <2>3, <2>4
<1>9. ASSUME NEW s \in State, Push(s) PROVE Shape'
  <2>1. TypeOK'
    BY <1>9 DEF Handle, Push, Enter, Leave, FreeSlots, Touch, setup, TypeOK, Frames
  <2>2. Initialised'
    BY <1>9 DEF Handle, Push, Enter, Leave, FreeSlots, Touch, setup, TypeOK, Initialised, OneHost
  <2>3. Frames'
    BY <1>9 DEF Handle, Push, Enter, Leave, FreeSlots, Touch, setup, TypeOK, Frames
  <2>4. Fresh'
    BY <1>9 DEF Handle, Push, Enter, Leave, FreeSlots, Touch, setup, TypeOK, Fresh
  <2>5. QED
    BY <2>1, <2>2, <2>3, <2>4
<1>10. ASSUME NEW s \in State, Free(s) PROVE Shape'
  <2>a. con[s] \in Channel
    BY <1>10 DEF Free, TypeOK, Frames
  <2>b. ref[con[s]] > 0 /\ con[s] \in channels
    BY <2>a, HolderAlive DEF RefsAccounted
  <2>c. ref' \in [Channel -> Nat] /\ channels' \subseteq Channel
    BY <2>a, <2>b, <1>10 DEF Free, Drop, TypeOK
  <2>d. fault' \in BOOLEAN
    BY <1>10 DEF Free, Touch, TypeOK
  <2>1. TypeOK'
    BY <2>c, <2>d, <1>10 DEF Free, Enter, Leave, setup, TypeOK
  <2>2. Initialised'
    BY <1>10 DEF Free, Drop, Enter, Leave, Touch, setup, TypeOK, Initialised, OneHost
  <2>3. Frames'
    BY <1>10 DEF Free, Drop, Enter, Leave, Touch, setup, TypeOK, Frames
  <2>4. Fresh'
    BY <2>a, <2>b, <1>10 DEF Free, Drop, Enter, Leave, Touch, setup, TypeOK, Fresh
  <2>5. QED
    BY <2>1, <2>2, <2>3, <2>4
<1>11. ASSUME NEW s \in State, Use(s) PROVE Shape'
  <2>1. TypeOK'
    BY <1>11 DEF Use, Enter, Touch, setup, TypeOK, Frames
  <2>2. Initialised'
    BY <1>11 DEF Use, Enter, Touch, setup, TypeOK, Initialised, OneHost
  <2>3. Frames'
    BY <1>11 DEF Use, Enter, Touch, setup, TypeOK, Frames
  <2>4. Fresh'
    BY <1>11 DEF Use, Enter, Touch, setup, TypeOK, Fresh
  <2>5. QED
    BY <2>1, <2>2, <2>3, <2>4
<1>12. ASSUME NEW s \in State, Unwind(s) PROVE Shape'
  <2>1. TypeOK'
    BY <1>12 DEF Unwind, Enter, Leave, setup, TypeOK, Frames
  <2>2. Initialised'
    BY <1>12 DEF Unwind, Enter, Leave, setup, TypeOK, Initialised, OneHost
  <2>3. Frames'
    BY <1>12 DEF Unwind, Enter, Leave, setup, TypeOK, Frames
  <2>4. Fresh'
    BY <1>12 DEF Unwind, Enter, Leave, setup, TypeOK, Fresh
  <2>5. QED
    BY <2>1, <2>2, <2>3, <2>4
<1>13. CASE UNCHANGED vars
  BY <1>13 DEF vars, setup, TypeOK, Initialised, Frames, Fresh
<1>14. QED
  BY <1>1, <1>2, <1>3, <1>4, <1>5, <1>6, <1>7, <1>8, <1>9, <1>10, <1>11, <1>12, <1>13 DEF Next, Open, Begin, Step


\* The sum of the references on one channel.
Holders(c) == Cardinality(HandlesOn(c)) + Cardinality(CallsOn(c)) + lost[c]

\* Every step moves references as it moves handles and calls.
LEMMA StepRefs == Shape /\ RefsAccounted /\ [Next]_vars => RefsAccounted'
<1> SUFFICES ASSUME Shape, RefsAccounted, [Next]_vars, NEW k \in Channel
             PROVE  ref'[k] = Holders(k)' /\ (k \in channels' <=> ref'[k] > 0)
  BY DEF RefsAccounted, Holders
<1>1. /\ TypeOK /\ Frames /\ k # NoChannel
      /\ ref[k] = Holders(k) /\ (k \in channels <=> ref[k] > 0)
  BY RegistryAssumption DEF Shape, RefsAccounted, Holders
<1>2. /\ Cardinality(HandlesOn(k)) \in Nat /\ Cardinality(CallsOn(k)) \in Nat
      /\ lost[k] \in Nat /\ ref[k] \in Nat
  BY <1>1, Counted
<1>3. held' = held => HandlesOn(k)' = HandlesOn(k)
  BY DEF HandlesOn
<1>4. con' = con => CallsOn(k)' = CallsOn(k)
  BY DEF CallsOn
<1>5. ASSUME UNCHANGED <<channels, ref, held, lost, con>>
      PROVE  ref'[k] = Holders(k)' /\ (k \in channels' <=> ref'[k] > 0)
  BY <1>1, <1>3, <1>4, <1>5 DEF Holders
<1>6. ASSUME NEW s \in State, OpenTest(s) \/ OpenSetup(s) \/ OpenMark(s)
      PROVE  ref'[k] = Holders(k)' /\ (k \in channels' <=> ref'[k] > 0)
  <2>1. UNCHANGED channels
    BY <1>6 DEF OpenTest, OpenSetup, OpenMark, Opening, Shape, Initialised
  <2>2. QED
    BY <1>5, <1>6, <2>1 DEF OpenTest, OpenSetup, OpenMark, Opening
<1>7. ASSUME NEW s \in State, New(s)
      PROVE  ref'[k] = Holders(k)' /\ (k \in channels' <=> ref'[k] > 0)
  <2> DEFINE c == next_id + 1
  <2>1. /\ con[s] = NoChannel /\ con' = [con EXCEPT ![s] = c]
        /\ ref' = [ref EXCEPT ![c] = 1] /\ channels' = channels \cup {c}
        /\ UNCHANGED <<held, lost>>
    BY <1>1, <1>7 DEF New, Enter, InLua, Frames
  <2>a. c \in Channel
    BY <1>1, <1>7, RegistryAssumption DEF New, TypeOK, Channel
  <2>2. c \notin channels /\ ref'[k] = IF k = c THEN 1 ELSE ref[k]
    BY <1>1, <2>1 DEF Shape, Fresh, TypeOK
  <2> HIDE DEF c
  <2>3. Cardinality(CallsOn(k)') = Cardinality(CallsOn(k)) + IF k = c THEN 1 ELSE 0
    BY <1>1, <2>a, <2>1, CallBegins
  <2>4. k = c => ref[k] = 0
    BY <1>1, <1>2, <2>2
  <2>5. QED
    BY <1>1, <1>2, <1>3, <2>1, <2>2, <2>3, <2>4 DEF Holders
<1>8. ASSUME NEW s \in State, NEW c \in Channel, Ref(c), con[s] = NoChannel,
             con' = [con EXCEPT ![s] = c], UNCHANGED <<held, lost>>
      PROVE  ref'[k] = Holders(k)' /\ (k \in channels' <=> ref'[k] > 0)
  <2>1. ref'[k] = ref[k] + IF k = c THEN 1 ELSE 0
    BY <1>1, <1>2, <1>8 DEF Ref, TypeOK
  <2>2. Cardinality(CallsOn(k)') = Cardinality(CallsOn(k)) + IF k = c THEN 1 ELSE 0
    BY <1>1, <1>2, <1>8, CallBegins
  <2>3. UNCHANGED channels /\ c \in channels
    BY <1>8 DEF Ref
  <2>4. QED
    BY <1>1, <1>2, <1>3, <1>8, <2>1, <2>2, <2>3 DEF Holders
<1>9. ASSUME NEW s \in State, NEW c \in Channel, Connect(s, c)
      PROVE  ref'[k] = Holders(k)' /\ (k \in channels' <=> ref'[k] > 0)
  BY <1>1, <1>8, <1>9 DEF Connect, Enter, InLua, Frames
<1>10. ASSUME NEW s \in State, NEW i \in Slot, Call(s, i)
       PROVE  ref'[k] = Holders(k)' /\ (k \in channels' <=> ref'[k] > 0)
  <2>1. held[<<s, i>>] \in Channel
    BY <1>1, <1>10 DEF Call, TypeOK, Handle
  <2>2. QED
    BY <1>1, <1>8, <1>10, <2>1 DEF Call, Enter, InLua, Frames
<1>11. ASSUME NEW s \in State, NEW i \in Slot, Collect(s, i)
       PROVE  ref'[k] = Holders(k)' /\ (k \in channels' <=> ref'[k] > 0)
  <2> DEFINE c == held[<<s, i>>]
  <2>1. <<s, i>> \in Handle /\ c \in Channel
    BY <1>1, <1>11 DEF Collect, TypeOK, Handle
  <2>2. c \in channels
    BY <1>1, <2>1, HolderAlive
  <2>3. /\ con[s] = NoChannel /\ con' = [con EXCEPT ![s] = c]
        /\ held' = [held EXCEPT ![<<s, i>>] = NoChannel]
        /\ UNCHANGED <<channels, ref, lost>>
    BY <1>1, <1>11, <2>2 DEF Collect, Enter, InLua, Frames
  <2>4. Cardinality(CallsOn(k)') = Cardinality(CallsOn(k)) + IF k = c THEN 1 ELSE 0
    BY <1>1, <1>2, <2>1, <2>3, CallBegins
  <2>5. Cardinality(HandlesOn(k)') = Cardinality(HandlesOn(k)) - IF k = c THEN 1 ELSE 0
    BY <1>1, <1>2, <2>1, <2>3, HandleGone
  <2> HIDE DEF c
  <2>6. QED
    BY <1>1, <1>2, <2>3, <2>4, <2>5 DEF Holders
<1>12. ASSUME NEW s \in State, Find(s)
       PROVE  ref'[k] = Holders(k)' /\ (k \in channels' <=> ref'[k] > 0)
  <2>1. con[s] \in Channel
    BY <1>1, <1>12 DEF Find, TypeOK, Frames
  <2>2. con[s] \in channels
    BY <1>1, <2>1, HolderAlive
  <2>3. UNCHANGED <<channels, ref, held, lost, con>>
    BY <1>1, <1>12, <2>2 DEF Find, Enter, TypeOK
  <2>4. QED
    BY <1>5, <2>3
<1>13. ASSUME NEW s \in State, Push(s)
       PROVE  ref'[k] = Holders(k)' /\ (k \in channels' <=> ref'[k] > 0)
  <2> DEFINE c == con[s]
  <2>1. PICK i \in FreeSlots(s) : held' = [held EXCEPT ![<<s, i>>] = c]
    BY <1>13 DEF Push
  <2>2. <<s, i>> \in Handle /\ held[<<s, i>>] = NoChannel /\ c \in Channel
    BY <1>1, <1>13, <2>1 DEF Push, FreeSlots, Handle, TypeOK, Frames
  <2>3. con' = [con EXCEPT ![s] = NoChannel] /\ UNCHANGED <<channels, ref, lost>>
    BY <1>13 DEF Push, Leave, Enter
  <2>4. Cardinality(CallsOn(k)') = Cardinality(CallsOn(k)) - IF k = c THEN 1 ELSE 0
    BY <1>1, <1>2, <2>2, <2>3, CallEnds
  <2>5. Cardinality(HandlesOn(k)') = Cardinality(HandlesOn(k)) + IF k = c THEN 1 ELSE 0
    BY <1>1, <1>2, <2>1, <2>2, HandleMade
  <2> HIDE DEF c
  <2>6. QED
    BY <1>1, <1>2, <2>3, <2>4, <2>5 DEF Holders
<1>14. ASSUME NEW s \in State, Use(s)
       PROVE  ref'[k] = Holders(k)' /\ (k \in channels' <=> ref'[k] > 0)
  <2>1. UNCHANGED <<channels, ref, held, lost, con>>
    BY <1>1, <1>14 DEF Use, Enter, TypeOK
  <2>2. QED
    BY <1>5, <2>1
<1>15. ASSUME NEW s \in State, Unwind(s)
       PROVE  ref'[k] = Holders(k)' /\ (k \in channels' <=> ref'[k] > 0)
  <2> DEFINE c == con[s]
  <2>1. c \in Channel
    BY <1>1, <1>15 DEF Unwind, TypeOK, Frames
  <2>2. /\ con' = [con EXCEPT ![s] = NoChannel] /\ lost' = [lost EXCEPT ![c] = @ + 1]
        /\ UNCHANGED <<channels, ref, held>>
    BY <1>15 DEF Unwind, Leave, Enter
  <2>3. Cardinality(CallsOn(k)') = Cardinality(CallsOn(k)) - IF k = c THEN 1 ELSE 0
    BY <1>1, <1>2, <2>1, <2>2, CallEnds
  <2>4. lost'[k] = lost[k] + IF k = c THEN 1 ELSE 0
    BY <1>1, <1>2, <2>1, <2>2 DEF TypeOK
  <2> HIDE DEF c
  <2>5. QED
    BY <1>1, <1>2, <1>3, <2>2, <2>3, <2>4 DEF Holders
<1>16. ASSUME NEW s \in State, Free(s)
       PROVE  ref'[k] = Holders(k)' /\ (k \in channels' <=> ref'[k] > 0)
  <2> DEFINE c == con[s]
  <2>1. c \in Channel
    BY <1>1, <1>16 DEF Free, TypeOK, Frames
  <2>2. /\ con' = [con EXCEPT ![s] = NoChannel] /\ Drop(c)
        /\ UNCHANGED <<held, lost>>
    BY <1>16 DEF Free, Leave, Enter
  <2>3. Cardinality(CallsOn(k)') = Cardinality(CallsOn(k)) - IF k = c THEN 1 ELSE 0
    BY <1>1, <1>2, <2>1, <2>2, CallEnds
  <2>4. ref'[k] = ref[k] - IF k = c THEN 1 ELSE 0
    BY <1>1, <1>2, <2>1, <2>2 DEF Drop, TypeOK
  <2>5. k = c => ref[k] > 0
    BY <1>1, <2>1, HolderAlive
  <2>6. k \in channels' <=> ref'[k] > 0
    BY <1>1, <1>2, <2>1, <2>2, <2>4, <2>5 DEF Drop, TypeOK
  <2> HIDE DEF c
  <2>7. QED
    BY <1>1, <1>2, <1>3, <2>2, <2>3, <2>4, <2>6 DEF Holders
<1>17. CASE UNCHANGED vars
  BY <1>5, <1>17 DEF vars
<1>18. QED
  BY <1>6, <1>7, <1>9, <1>10, <1>11, <1>12, <1>13, <1>14, <1>15, <1>16, <1>17
     DEF Next, Open, Begin, Step

\* Every channel_t that is touched is one somebody counted has in hand.
LEMMA StepFault == Shape /\ RefsAccounted /\ NoUseAfterFree /\ [Next]_vars => NoUseAfterFree'
<1> SUFFICES ASSUME Shape, RefsAccounted, ~ fault, [Next]_vars PROVE ~ fault'
  BY DEF NoUseAfterFree
<1>1. ASSUME NEW s \in State, pc[s] # "idle" PROVE con[s] \in channels
  <2>1. con[s] \in Channel
    BY <1>1 DEF Shape, TypeOK, Frames
  <2>2. QED
    BY <2>1, HolderAlive DEF Shape
<1>2. ASSUME NEW s \in State, Push(s) \/ Use(s) \/ Free(s) PROVE ~ fault'
  BY <1>1, <1>2 DEF Push, Use, Free, Touch
<1>3. ASSUME NEW s \in State, Open(s) \/ Begin(s) \/ Find(s) \/ Unwind(s) PROVE UNCHANGED fault
  BY <1>3 DEF Open, OpenTest, OpenSetup, OpenMark, Opening, Begin, New, Connect, Call,
              Collect, Find, Unwind
<1>4. CASE UNCHANGED vars
  BY <1>4 DEF vars
<1>5. QED
  BY <1>2, <1>3, <1>4 DEF Next, Step

LEMMA InitInv == Init => IInv
<1> SUFFICES ASSUME Init PROVE IInv
  OBVIOUS
<1> USE RegistryAssumption DEF Init
<1>1. TypeOK
  <2>1. 0 \in 0..MaxErrors /\ 0 \in 0..MaxId
    OBVIOUS
  <2>2. QED
    BY <2>1 DEF TypeOK, CallPhase
<1>2. Initialised /\ Frames /\ Fresh /\ NoUseAfterFree
  BY DEF Initialised, Frames, Fresh, NoUseAfterFree
<1>3. ASSUME NEW c \in Channel PROVE HandlesOn(c) = {} /\ CallsOn(c) = {}
  BY <1>3 DEF HandlesOn, CallsOn
<1>4. RefsAccounted
  <2>1. Cardinality({}) = 0
    BY FS_EmptySet
  <2>2. ASSUME NEW c \in Channel PROVE ref[c] = 0 /\ lost[c] = 0
    OBVIOUS
  <2>3. QED
    BY <1>3, <2>1, <2>2 DEF RefsAccounted
<1>5. QED
  BY <1>1, <1>2, <1>4 DEF IInv, Shape

LEMMA SpecInv == ASSUME OneHost PROVE Spec => []IInv
<1>1. IInv /\ [Next]_vars => IInv'
  BY StepShape, StepRefs, StepFault DEF IInv
<1>2. QED
  BY <1>1, InitInv, PTL DEF Spec

\* The variables keep their types: no count of references ever goes below zero.
THEOREM TypeCorrect == ASSUME OneHost PROVE Spec => []TypeOK
<1>1. IInv => TypeOK
  BY DEF IInv, Shape
<1>2. QED
  BY <1>1, SpecInv, PTL

\* The ref_count of a channel is the number of handles on it, of calls in progress and
\* of references a Lua error has kept; and a channel is registered while there is one.
THEOREM CountedReferences == ASSUME OneHost PROVE Spec => []RefsAccounted
<1>1. IInv => RefsAccounted
  BY DEF IInv
<1>2. QED
  BY <1>1, SpecInv, PTL

\* No channel is used after it was freed.
THEOREM MemorySafety == ASSUME OneHost PROVE Spec => []NoUseAfterFree
<1>1. IInv => NoUseAfterFree
  BY DEF IInv
<1>2. QED
  BY <1>1, SpecInv, PTL

=============================================================================
