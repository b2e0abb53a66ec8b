-------------------------- MODULE MCControlProgram --------------------------
(***************************************************************************)
(* ControlProgram on small instances: every kind of settings up to the     *)
(* ones no mode tells apart.                                               *)
(***************************************************************************)
EXTENDS ControlProgram

MCSettings ==
    {s \in Settings :
        /\ s.mode # "tcp" => ~s.mesh
        /\ CASE s.mode = "tcp" -> s.target \in {"missing", "malformed", "local", "remote"}
             [] s.mode \in {"direct_read", "nats"} ->
                    s.target \in {"missing", "malformed", "remote"}
             [] OTHER -> s.target \in {"missing"} \union Urls
        /\ s.auth \in {"missing", "https"} \/ (s.mode = "tcp" /\ s.target = "local")}

(* The rows and what is asked of them matter to one mode only.             *)
AnyQuery == CHOOSE q \in DirectRead!Queries : TRUE

MCInit ==
    /\ InitWith(MCSettings)
    /\ Mode # "direct_read" =>
          /\ view = {}
          /\ query = [l \in Lookups |-> AnyQuery]

MCSpec == MCInit /\ [][Next]_vars /\ Fairness
=============================================================================
