------------------------------ MODULE MCShell -------------------------------
(***************************************************************************)
(* Instance of Shell for TLC: every line of up to five tokens is parsed,   *)
(* a few are run.                                                          *)
(***************************************************************************)
EXTENDS Shell

MCBytes == <<1, 2, 3>>
MCLines == UNION {[1..n -> {"a", "|", "&", ";", "<", "(", ")"}] : n \in 0..5}
MCXLines == { <<"echo", "|", "cat", "|", "wc">>,
              <<"echo", ">", "f", ";", "cat", "<", "f">>,
              <<"echo", "|", "nosuch">>,
              <<"(", "echo", ";", "echo", ")", "|", "wc">>,
              <<"echo", "|", "cat">>, <<"echo", "&">>, <<"echo", "|", "cat", "&">>,
              <<"nosuch", "|", "(", "nosuch", ";", "echo", ")", "|", "wc">> }
MCKillLines == { <<"echo", "|", "cat">>, <<"echo", "&">>, <<"echo", "|", "nosuch">> }
MCSLines == { <<"echo", "|", "cat", "|", "wc">>, <<"echo", "|", "nosuch">> }
=============================================================================
