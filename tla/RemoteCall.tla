----------------------------- MODULE RemoteCall -----------------------------
(***************************************************************************)
(* What running a command promises, whatever bytes it takes: the device    *)
(* carries a call out at most once and with the arguments it was given, a  *)
(* call returns Ok only if it was carried out and then with the values the *)
(* device sent, and after a failure, when nobody knows, there is no other  *)
(* call.                                                                   *)
(***************************************************************************)
EXTENDS Sequences

CONSTANT Requests \* what may be called

VARIABLES phase,  \* "idle", "called" or "failed"
          call,   \* the last request
          open,   \* the device has yet to carry it out
          did,    \* what it carried out
          result, \* the values it sent when it did
          answer  \* what the last call to succeed returned

vars == <<phase, call, open, did, result, answer>>

Nothing == <<>>

Init == /\ phase = "idle" /\ open = FALSE
        /\ call = Nothing /\ did = Nothing /\ result = Nothing /\ answer = Nothing

Call(r) ==
    /\ phase = "idle"
    /\ phase' = "called" /\ call' = r /\ open' = TRUE
    /\ did' = Nothing /\ result' = Nothing /\ answer' = Nothing

(* The device may send any values.                                         *)
Execute ==
    /\ open
    /\ open' = FALSE /\ did' = call
    /\ UNCHANGED <<phase, call, answer>>

Succeed ==
    /\ phase = "called" /\ ~open
    /\ phase' = "idle" /\ answer' = result
    /\ UNCHANGED <<call, open, did, result>>

Fail ==
    /\ phase = "called"
    /\ phase' = "failed"
    /\ UNCHANGED <<call, open, did, result, answer>>

Next == \/ \E r \in Requests : Call(r)
        \/ Execute
        \/ Succeed
        \/ Fail

Spec == Init /\ [][Next]_vars /\ WF_vars(Succeed \/ Fail)
=============================================================================
