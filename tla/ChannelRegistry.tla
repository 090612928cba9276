--------------------------- MODULE ChannelRegistry ---------------------------
(***************************************************************************)
(* The registry of channels and the handles on them (lc_channel.c):        *)
(* init_channel, channel_new, channel_find, channel_ref, channel_free and  *)
(* the functions of the Lua library around them.  What a call does with    *)
(* the channel it has referenced is the business of module Channel.        *)
(*                                                                         *)
(* A process is a Lua state: one thread at a time runs it (OneRunner of    *)
(* Session).  The global lock guards the registry and every ref_count;     *)
(* each of its critical sections is one action.                            *)
(***************************************************************************)
EXTENDS Integers, FiniteSets

CONSTANTS
  State,     \* Lua states that open the library
  Host,      \* those the host program creates; sessions create the others
  Slot,      \* places for handles in a Lua state
  MaxId,     \* bound of the model: channels created
  MaxErrors, \* bound of the model: Lua errors inside write
  NoChannel

Channel == 1..MaxId
Handle == State \X Slot

ASSUME RegistryAssumption ==
  /\ IsFiniteSet(State) /\ IsFiniteSet(Slot)
  /\ Host \subseteq State
  /\ MaxId \in Nat /\ MaxErrors \in Nat
  /\ NoChannel \notin Channel

VARIABLES
  init,      \* the static variable of init_channel
  opened,    \* opened[s]: where state s is in lc_open_channel
  channels,  \* the keys of the map channels
  next_id,   \* the static variable of channel_new
  ref,       \* ref[c]: ref_count
  held,      \* held[h]: the channel of the lua_Channel userdata h
  lost,      \* lost[c]: references of calls that a Lua error has left
  pc, con,   \* the call state s is in, and its channel_t
  fault      \* whether a channel was used after it was freed

setup == <<init, opened>>
vars  == <<setup, channels, next_id, ref, held, lost, pc, con, fault>>

CallPhase == {"idle",
              "find",   \* channel_new is about to look up what it has inserted
              "push",   \* lua_pushchannel is next
              "use",    \* between channel_ref and channel_free
              "free"}   \* channel_free is next

TypeOK ==
  /\ init \in BOOLEAN
  /\ opened \in [State -> {"no", "setup", "mark", "yes"}]
  /\ channels \subseteq Channel
  /\ next_id \in 0..MaxId
  /\ ref \in [Channel -> Nat]
  /\ held \in [Handle -> Channel \cup {NoChannel}]
  /\ lost \in [Channel -> 0..MaxErrors]
  /\ pc \in [State -> CallPhase]
  /\ con \in [State -> Channel \cup {NoChannel}]
  /\ fault \in BOOLEAN

Init ==
  /\ init = FALSE
  /\ opened = [s \in State |-> "no"]
  /\ channels = {}
  /\ next_id = 0
  /\ ref = [c \in Channel |-> 0]
  /\ held = [h \in Handle |-> NoChannel]
  /\ lost = [c \in Channel |-> 0]
  /\ pc = [s \in State |-> "idle"]
  /\ con = [s \in State |-> NoChannel]
  /\ fault = FALSE

-----------------------------------------------------------------------------
(* init_channel.  atomic_int_cas(&init, 1, 1) only tests: the loop keeps no  *)
(* second thread out while the first one is inside.                          *)

Opening(s, from, to) ==
  /\ opened[s] = from
  /\ opened' = [opened EXCEPT ![s] = to]
  /\ UNCHANGED <<next_id, ref, held, lost, pc, con, fault>>

\* A session is created by Lua code, which has opened the library.
OpenTest(s) ==
  /\ s \in Host \/ \E t \in State : opened[t] = "yes"
  /\ Opening(s, "no", IF init THEN "yes" ELSE "setup")
  /\ UNCHANGED <<init, channels>>

\* A new lock, and a new and empty map.
OpenSetup(s) ==
  /\ Opening(s, "setup", "mark")
  /\ channels' = {}
  /\ UNCHANGED init

\* A mutant of OpenMark: the variable is not set before the loop is left.
OpenUnmarked(s) ==
  /\ Opening(s, "mark", "yes")
  /\ UNCHANGED <<init, channels>>

OpenMark(s) ==
  /\ Opening(s, "mark", "yes")
  /\ init' = TRUE
  /\ UNCHANGED channels

-----------------------------------------------------------------------------
Enter(s, p, c) == pc' = [pc EXCEPT ![s] = p] /\ con' = [con EXCEPT ![s] = c]
Leave(s) == Enter(s, "idle", NoChannel)

InLua(s) == opened[s] = "yes" /\ pc[s] = "idle"
FreeSlots(s) == {i \in Slot : held[<<s, i>>] = NoChannel}

\* channel_ref of a channel that is found.
Ref(c) == /\ c \in channels
          /\ ref' = [ref EXCEPT ![c] = @ + 1]
          /\ UNCHANGED channels

\* channel_free.  That the last reference takes the queues of the channel along
\* is left out: who still waits in them is a task, as a host thread waits with a
\* reference, and to the calls of tasks it is what Close of Channel does.
Drop(c) == /\ ref' = [ref EXCEPT ![c] = @ - 1]
           /\ channels' = IF ref[c] > 1 THEN channels ELSE channels \ {c}

\* Every use of a channel_t outside the global lock.
Touch(c) == fault' = (fault \/ c \notin channels)

\* The critical section of channel_new.
New(s) ==
  /\ InLua(s) /\ FreeSlots(s) # {}
  /\ next_id < MaxId
  /\ next_id' = next_id + 1
  /\ channels' = channels \cup {next_id + 1}
  /\ ref' = [ref EXCEPT ![next_id + 1] = 1]
  /\ Enter(s, "find", next_id + 1)
  /\ UNCHANGED <<setup, held, lost, fault>>

\* channel_new returns what channel_find finds; luaC_new raises an error if
\* that is NULL.
Find(s) ==
  /\ pc[s] = "find"
  /\ IF con[s] \in channels THEN Enter(s, "push", con[s]) ELSE Leave(s)
  /\ UNCHANGED <<setup, channels, next_id, ref, held, lost, fault>>

\* luaC_connect and luac_load, with any id: ids circulate as numbers.  An id
\* that is not found changes nothing.
Connect(s, c) ==
  /\ InLua(s) /\ FreeSlots(s) # {}
  /\ Ref(c)
  /\ Enter(s, "push", c)
  /\ UNCHANGED <<setup, next_id, held, lost, fault>>

\* lua_pushchannel: the reference of the call becomes that of the new handle.
Push(s) ==
  /\ pc[s] = "push"
  /\ Touch(con[s])
  /\ \E i \in FreeSlots(s) : held' = [held EXCEPT ![<<s, i>>] = con[s]]
  /\ Leave(s)
  /\ UNCHANGED <<setup, channels, next_id, ref, lost>>

\* A mutant of Call: the channel is used with the reference of the handle.
CallBorrowed(s, i) ==
  /\ InLua(s)
  /\ held[<<s, i>>] \in channels
  /\ Enter(s, "use", held[<<s, i>>])
  /\ UNCHANGED <<setup, channels, next_id, ref, held, lost, fault>>

\* luac_write, luac_read, luac_close, luac_status and channel_count begin with
\* channel_ref; where it finds nothing they return or raise an error.
Call(s, i) ==
  /\ InLua(s)
  /\ held[<<s, i>>] # NoChannel
  /\ Ref(held[<<s, i>>])
  /\ Enter(s, "use", held[<<s, i>>])
  /\ UNCHANGED <<setup, next_id, held, lost, fault>>

\* What the call does with the channel; a write of a host thread may block here.
Use(s) ==
  /\ pc[s] = "use"
  /\ Touch(con[s])
  /\ Enter(s, "free", con[s])
  /\ UNCHANGED <<setup, channels, next_id, ref, held, lost>>

\* lua_newmessage calls the __save of a userdata, and a Lua error in it does not
\* return to luac_write.
Unwind(s) ==
  /\ pc[s] = "use"
  /\ lost[con[s]] < MaxErrors
  /\ lost' = [lost EXCEPT ![con[s]] = @ + 1]
  /\ Leave(s)
  /\ UNCHANGED <<setup, channels, next_id, ref, held, fault>>

\* luac_destroy, up to the result of channel_find; channel_free(NULL) does
\* nothing.
Collect(s, i) ==
  /\ InLua(s)
  /\ held[<<s, i>>] # NoChannel
  /\ held' = [held EXCEPT ![<<s, i>>] = NoChannel]
  /\ IF held[<<s, i>>] \in channels THEN Enter(s, "free", held[<<s, i>>]) ELSE Leave(s)
  /\ UNCHANGED <<setup, channels, next_id, ref, lost, fault>>

\* A mutant of Free: an early return forgets it.
FreeForgotten(s) ==
  /\ pc[s] = "free"
  /\ Leave(s)
  /\ UNCHANGED <<setup, channels, next_id, ref, held, lost, fault>>

\* channel_free, which uses the channel_t its caller has found or referenced.
Free(s) ==
  /\ pc[s] = "free"
  /\ Touch(con[s])
  /\ Drop(con[s])
  /\ Leave(s)
  /\ UNCHANGED <<setup, next_id, held, lost>>

-----------------------------------------------------------------------------
Open(s) == OpenTest(s) \/ OpenSetup(s) \/ OpenMark(s)
Begin(s) ==
  \/ New(s)
  \/ \E c \in Channel : Connect(s, c)
  \/ \E i \in Slot : Call(s, i) \/ Collect(s, i)
Step(s) == Find(s) \/ Push(s) \/ Free(s)

Next == \E s \in State : Open(s) \/ Begin(s) \/ Step(s) \/ Use(s) \/ Unwind(s)

Spec == Init /\ [][Next]_vars

\* Threads are scheduled.  Nothing forces code to call, or a write to return.
FairSpec == Spec /\ \A s \in State : WF_vars(Step(s))

-----------------------------------------------------------------------------
HandlesOn(c) == {h \in Handle : held[h] = c}
CallsOn(c) == {s \in State : con[s] = c}

\* ref_count is the number of handles in all Lua states and of calls in
\* progress, whoever made the channel known to whom, and of those a Lua error
\* has left; and a channel is in the registry as long as there is one.
RefsAccounted ==
  \A c \in Channel :
    /\ ref[c] = Cardinality(HandlesOn(c)) + Cardinality(CallsOn(c)) + lost[c]
    /\ c \in channels <=> ref[c] > 0

\* No channel is used after it was freed, though luac_destroy frees what it has
\* found without a reference of its own.
NoUseAfterFree == ~ fault

\* A channel on which there is no handle any more is freed, unless a Lua error
\* has kept a reference: no path through the library forgets one.
ChannelsGo ==
  \A c \in Channel :
    (c \in channels /\ HandlesOn(c) = {})
      ~> (c \notin channels \/ HandlesOn(c) # {} \/ lost[c] > 0)

\* Whatever happens, a channel without handles is freed.
AlwaysFreed ==
  \A c \in Channel :
    (c \in channels /\ HandlesOn(c) = {}) ~> (c \notin channels \/ HandlesOn(c) # {})

=============================================================================
