----------------------------- MODULE MCSegments -----------------------------
(* One processor; addresses that differ in every byte the code takes apart. *)
EXTENDS Segments

MCTssAddresses == {<<88, 16, 0, 0, 0, 128, 255, 255>>, <<8, 255, 18, 52, 86, 128, 255, 255>>,
                   <<120, 0, 0, 128, 1, 0, 0, 0>>}
MCStub == [v \in 0 .. 255 |->
  <<16 * (v % 16), v \div 16, 1 + (v % 7), 128, 255, 255, 255, 255>>]
MCVectors == {6, 8, 11, 13, 14, 32, 51, 63, 128}
=============================================================================
