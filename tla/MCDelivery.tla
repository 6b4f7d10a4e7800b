------------------------------ MODULE MCDelivery ------------------------------
(* Instances of Delivery for TLC: one destination of each channel.            *)
EXTENDS Delivery, TLC

CONSTANTS mail, chat, r1, r2, r3

BothChannels == {mail, chat}
OneMail == {mail}
TwoRequests == {r1, r2}
ThreeRequests == {r1, r2, r3}

Interchangeable == Permutations(Requests)
===============================================================================
