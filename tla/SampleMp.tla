------------------------------ MODULE SampleMp ------------------------------
(***************************************************************************)
(* inter_process_comm/sample_rte_mp: the primary registers a handler for   *)
(* "sample_mp" and stays until the handler has run; the secondary attaches,*)
(* sleeps two seconds, sends one message and returns.  As in               *)
(* ReadyHandshake, the message service drops a message that finds no       *)
(* handler.  The four payload bytes are only printed and are left out.     *)
(***************************************************************************)

VARIABLES
  p_pc, out,        \* primary, and the flag its handler sets
  registered,       \* "sample_mp" has a handler
  s_pc,             \* secondary
  message           \* "none", or "sent" while it is on its way

vars == <<p_pc, out, registered, s_pc, message>>

Init ==
  /\ p_pc = "init" /\ out = FALSE /\ registered = FALSE
  /\ s_pc = "init"
  /\ message = "none"

-----------------------------------------------------------------------------
(* primary.c *)

\* A failed initialisation ends the process.
PrimaryEalInit ==
  /\ p_pc = "init"
  /\ p_pc' \in {"register", "failed"}
  /\ UNCHANGED <<out, registered, s_pc, message>>

\* So does a failed registration.
PrimaryRegister ==
  /\ p_pc = "register"
  /\ \/ p_pc' = "loop" /\ registered' = TRUE
     \/ p_pc' = "failed" /\ UNCHANGED registered
  /\ UNCHANGED <<out, s_pc, message>>

PrimaryLeaveLoop ==
  /\ p_pc = "loop"
  /\ out
  /\ p_pc' = "done"
  /\ UNCHANGED <<out, registered, s_pc, message>>

\* The message thread takes the message; without a handler it is dropped.
mp_message_handler ==
  /\ message = "sent"
  /\ message' = "none"
  /\ out' = (out \/ registered)
  /\ UNCHANGED <<p_pc, registered, s_pc>>

-----------------------------------------------------------------------------
(* secondary.c *)

\* Needs the primary's EAL to be up; fails otherwise.
SecondaryEalInit ==
  /\ s_pc = "init"
  /\ s_pc' = IF p_pc \in {"init", "failed"} THEN "failed" ELSE "sleep"
  /\ UNCHANGED <<p_pc, out, registered, message>>

\* sleep(2) passes: nothing relates it to what the primary does meanwhile.
SecondarySleep ==
  /\ s_pc = "sleep"
  /\ s_pc' = "send"
  /\ UNCHANGED <<p_pc, out, registered, message>>

\* A failed send is only printed: the primary has gone.
send_message ==
  /\ s_pc = "send"
  /\ message' = IF p_pc \in {"register", "loop"} THEN "sent" ELSE "none"
  /\ s_pc' = "done"
  /\ UNCHANGED <<p_pc, out, registered>>

-----------------------------------------------------------------------------
Primary   == PrimaryEalInit \/ PrimaryRegister \/ PrimaryLeaveLoop
Secondary == SecondaryEalInit \/ SecondarySleep \/ send_message

\* Nothing can happen any more: the primary has left, or waits for a message
\* that nobody will send.
Quiet == /\ s_pc \in {"done", "failed"} /\ message = "none"
         /\ p_pc \in {"loop", "done", "failed"} /\ (p_pc = "loop" => ~out)
         /\ UNCHANGED vars

Next == Primary \/ Secondary \/ mp_message_handler \/ Quiet

Spec == Init /\ [][Next]_vars

\* Both mains and the message thread keep running.
FairSpec == Spec /\ WF_vars(Primary) /\ WF_vars(Secondary) /\ WF_vars(mp_message_handler)

-----------------------------------------------------------------------------
(* Properties *)

\* secondary.c sleeps "to ensure primary is ready": once it has attached and
\* the primary does not fail, its message is handled.
MessageHandled == (s_pc = "sleep") ~> (out \/ p_pc = "failed")
=============================================================================
