---------------------------- MODULE AtomicPair ----------------------------
(***************************************************************************)
(* What a metadata pair promises to the rest of the file system: a        *)
(* register that holds the directory content and survives power loss.     *)
(* One commit at a time replaces the content by its successor, in one     *)
(* indivisible step; a commit reports success only after that step; a     *)
(* commit that fails, or that a power cut interrupts, leaves the content   *)
(* as it was before the commit or as the commit wanted it, never a third   *)
(* value.  This is the invariant tests/power_loss.rs opens with.           *)
(***************************************************************************)
CONSTANTS Content,      \* the contents a pair can hold
          Idle          \* "no commit in flight"; not a content

VARIABLES content,      \* what a mount would read now
          inflight,     \* the content the running commit is to install
          result        \* how the last commit returned

avars == <<content, inflight, result>>

Init == /\ content \in Content
        /\ inflight = Idle
        /\ result = "none"

\* A commit starts: it will install c.
Begin(c) == /\ inflight = Idle
            /\ inflight' = c
            /\ result' = "none"
            /\ UNCHANGED content

\* The linearization point.
Install == /\ inflight # Idle
           /\ content' = inflight
           /\ UNCHANGED <<inflight, result>>

\* Success is reported only for a commit that is already durable.
Acknowledge == /\ inflight # Idle
               /\ content = inflight
               /\ inflight' = Idle
               /\ result' = "ok"
               /\ UNCHANGED content

\* An error return: the commit was installed, or is now, or never will be.
Fail == /\ inflight # Idle
        /\ inflight' = Idle
        /\ result' = "err"
        /\ content' \in {content, inflight}

\* Power loss, at any moment.
Crash == /\ inflight' = Idle
         /\ result' = "none"
         /\ UNCHANGED content

Next == \/ \E c \in Content : Begin(c)
        \/ Install
        \/ Acknowledge
        \/ Fail
        \/ Crash

Spec == Init /\ [][Next]_avars
=============================================================================
