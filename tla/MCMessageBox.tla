---------------------------- MODULE MCMessageBox ----------------------------
(* Small instances of MessageBox for TLC.                                   *)
EXTENDS MessageBox, TLC

CONSTANTS user, recvHandler, ctrlHandler, m1, m2, m3

\* Key tuples, as <<source, tag>>.
k11 == <<1, 1>>
k12 == <<1, 2>>
k21 == <<2, 1>>

TwoKeys == {k11, k21}

\* Two messages of one source and tag, one of another source.
MCKeyOf == m1 :> k11 @@ m2 :> k11 @@ m3 :> k21
MCSizeOf == m1 :> 1 @@ m2 :> 2 @@ m3 :> 2

AnyKey == {<<>>}
AnyOrSource1 == {<<>>, <<1>>}
=============================================================================
