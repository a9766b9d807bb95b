------------------------------ MODULE MCHealth ------------------------------
(* Small instances of Health for TLC.                                      *)
EXTENDS Health

CONSTANTS t1, t2, ticker

NoTester == {}
OneTester == {t1}
TwoTesters == {t1, t2}
AllStatus == {OK, Warn, Fail}
GoodOrBad == {OK, Fail}
=============================================================================
