----------------------------- MODULE MCTcpLink ------------------------------
(* The link on a small instance; the framing on data made of the bytes of  *)
(* its markers.                                                            *)
EXTENDS TcpLink

Bytes == {0, 85, 170}
MCSamples ==
  {[datas |-> <<a, b>>, stray |-> s] :
     a \in {<<170, 85, 0, 0>>, <<85, 170, 170, 85>>, <<0, 4, 0, 0>>},
     b \in [1 .. 4 -> Bytes],
     s \in {<<>>, <<170>>, <<85, 170>>, SOF, SOF \o <<0, 0>>, SOF \o <<0, 0, 0>>}}
=============================================================================
