----------------------------- MODULE MCWebServer -----------------------------
(* TLC instances of WebServer; requests are numbered. *)
EXTENDS WebServer

\* A harness arm, beside no arm at all, a list of two (nothing forbids to name
\* an arm twice, and baseline arms have few steps) or another harness arm.
MCArmLists == <<{<<"harness">>}, {<<>>, <<"baseline", "baseline">>, <<"harness">>}>>

\* One harness arm each: enough for two workers to meet in the toolbox.
MCOneArm == <<{<<"harness">>}, {<<"harness">>}>>
=============================================================================
