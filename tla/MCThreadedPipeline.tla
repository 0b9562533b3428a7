------------------------- MODULE MCThreadedPipeline -------------------------
(***************************************************************************)
(* The threaded pipeline implements the lossy FIFO: its stages, from the   *)
(* transmit burst back to the receive burst, are the abstract queue.       *)
(***************************************************************************)
EXTENDS ThreadedPipeline

Fifo == INSTANCE LossyFifo WITH
          MaxBurst  <- BURST_SIZE,
          inside    <- tx_pkts \o ring_parse_to_tx \o parser_pkts
                         \o ring_rx_to_parse \o rx_pkts,
          delivered <- sent

\* Packets leave the port in the order they came in, each at most once: no
\* interleaving of rx_loop, parser_loop and tx_loop reorders, duplicates or
\* invents a packet, even when both rings overflow.
ImplementsLossyFifo == Fifo!Spec
=============================================================================
