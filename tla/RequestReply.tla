---------------------------- MODULE RequestReply ----------------------------
(***************************************************************************)
(* What the two-process ring samples promise: the primary asks for         *)
(* 0 .. Requests - 1, one at a time; the secondary serves each request     *)
(* once; the answer to request v is 10 * v; the secondary leaves only      *)
(* after the last answer has been received.                                *)
(***************************************************************************)
EXTENDS Naturals, Sequences

CONSTANT Requests

VARIABLES asked,     \* requests issued so far
          served,    \* requests the secondary has seen, in order
          answers,   \* answers the primary has received, in order
          left       \* the secondary has left

vars == <<asked, served, answers, left>>

Init == asked = 0 /\ served = <<>> /\ answers = <<>> /\ left = FALSE

Ask == /\ asked < Requests
       /\ asked = Len(answers)
       /\ asked' = asked + 1
       /\ UNCHANGED <<served, answers, left>>

Serve == /\ ~left
         /\ Len(served) < asked
         /\ served' = Append(served, Len(served))
         /\ UNCHANGED <<asked, answers, left>>

Answer == /\ Len(answers) < Len(served)
          /\ answers' = Append(answers, 10 * served[Len(answers) + 1])
          /\ UNCHANGED <<asked, served, left>>

Leave == /\ Len(answers) = Requests
         /\ left' = TRUE
         /\ UNCHANGED <<asked, served, answers>>

Next == Ask \/ Serve \/ Answer \/ Leave

Spec == Init /\ [][Next]_vars
=============================================================================
