---------------------------- MODULE MCPunchPage ----------------------------
(* Small instances of PunchPage for TLC.                                   *)
EXTENDS PunchPage

\* A weekday, a Saturday that is a make-up workday, a weekday holiday, and a
\* Saturday whose calendar agrees.
SomeMounts == {<<"WORKDAY", "WORKDAY">>, <<"REST_DAY", "MAKEUP_WORKDAY">>,
               <<"WORKDAY", "NATIONAL_HOLIDAY">>, <<"REST_DAY", "REST_DAY">>}

=============================================================================
