---------------------------- MODULE MCSambaPull -----------------------------
(* Small instances of SambaPull for TLC.                                    *)
EXTENDS SambaPull

CONSTANTS t1, t2, loop, manual, direct

NoTicket == {}
OneTicket == {t1}
TwoTickets == {t1, t2}
NoPuller == {}
OneManual == {manual}
OneDirect == {direct}

NothingAsked == {}
FewDays == {<<2, 2>>, <<3, 3>>, <<3, 4>>}
TwoDays == {<<2, 2>>, <<2, 3>>}
=============================================================================
