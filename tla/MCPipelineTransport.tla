------------------------- MODULE MCPipelineTransport -------------------------
(* Model values and small limits for PipelineTransport.                    *)
EXTENDS PipelineTransport, MCConnPool

Returned(s) == phase[s] \in {"answered", "failed"}

PipelineView ==
    LET known(c) == ~Fresh(c)
        holds(s) == pc[s] \in {"picked", "open"}
    IN <<PoolView, isTCP, Read(nextQid, 0, known), Read(connReserved, 0, known),
         Read(wire, {}, known), queue, phase, qid, mailbox, answer,
         [s \in Stream |-> IF holds(s) THEN newConn[s] ELSE FALSE],
         [s \in Stream |-> IF Returned(s) THEN 0 ELSE retry[s]]>>
=============================================================================
