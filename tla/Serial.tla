------------------------------- MODULE Serial -------------------------------
(***************************************************************************)
(* What a session promises to those who queue tasks on it (README,         *)
(* "Sessions"; lc_session.c): the jobs of one session are executed in the  *)
(* order in which they were queued and never two at a time, while jobs of  *)
(* different sessions run in parallel.  A session that is destroyed drops  *)
(* the jobs it has not begun; it is never destroyed during one.  A session *)
(* that code has closed is promised nothing any more.                      *)
(***************************************************************************)
EXTENDS Sequences

CONSTANTS Session,  \* session ids
          Job,      \* what session_queue_task pushes, each pushed once
          SidOf,    \* SidOf[k]: the session of the task job k resumes
          NoJob

VARIABLES pending,  \* pending[s]: jobs accepted and not begun
          current,  \* current[s]: the job session s is executing, or NoJob
          closed    \* the sessions for which close was called

vars == <<pending, current, closed>>

Init == /\ pending = [s \in Session |-> <<>>]
        /\ current = [s \in Session |-> NoJob]
        /\ closed = {}

Accept(k) == /\ pending' = [pending EXCEPT ![SidOf[k]] = Append(@, k)]
             /\ SidOf[k] \notin closed
             /\ UNCHANGED <<current, closed>>

Begin(s) == /\ current[s] = NoJob
            /\ pending[s] # <<>>
            /\ current' = [current EXCEPT ![s] = Head(pending[s])]
            /\ pending' = [pending EXCEPT ![s] = Tail(@)]
            /\ UNCHANGED closed

End(s) == /\ current[s] # NoJob
          /\ current' = [current EXCEPT ![s] = NoJob]
          /\ UNCHANGED <<pending, closed>>

Discard(s) == /\ current[s] = NoJob
              /\ pending' = [pending EXCEPT ![s] = <<>>]
              /\ UNCHANGED <<current, closed>>

Close(s) == /\ closed' = closed \cup {s}
            /\ pending' = [pending EXCEPT ![s] = <<>>]
            /\ current' = [current EXCEPT ![s] = NoJob]

Next == \/ \E k \in Job : Accept(k)
        \/ \E s \in Session : Begin(s) \/ End(s) \/ Discard(s) \/ Close(s)

Spec == Init /\ [][Next]_vars

=============================================================================
