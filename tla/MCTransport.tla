----------------------------- MODULE MCTransport -----------------------------
(* Instances of Transport: which topics exist and who publishes.           *)
EXTENDS Transport

CONSTANTS p1, p2, t1, t2

OnePeer == {p1}
TwoPeers == {p1, p2}
OneTopic == {t2}
TwoTopics == {t1, t2}
OnePublisher == {p1}
OneSingle == {t1}

=============================================================================
