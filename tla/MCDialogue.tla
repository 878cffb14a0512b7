----------------------------- MODULE MCDialogue -----------------------------
(* Instances of Dialogue for TLC. *)
EXTENDS Dialogue

Mail == [api : {"send"}, multiline : BOOLEAN, user : BOOLEAN, ext : {"login", "plain", None}, rcpts : {2}]

File == [api : {"get", "put"}, multiline : BOOLEAN, type : BOOLEAN, direct : BOOLEAN,
         modes : {<<"epsv">>, <<"pasv">>, <<"eprt">>, <<"port", "epsv">>, <<"port", "eprt">>}]

\* A call that listens twice.
TwoPorts == [api : {"put"}, multiline : {FALSE}, type : {FALSE}, direct : {FALSE},
             modes : {<<"port", "eprt">>}]

Commands == [api : {"command"}, multiline : BOOLEAN, checks : {<<TRUE, TRUE>>, <<FALSE, TRUE>>}]

AllJobs == Mail \cup File \cup Commands
=============================================================================
