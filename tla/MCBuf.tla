-------------------------------- MODULE MCBuf --------------------------------
(* Two decoder threads and the driver thread on a buffer of two chunks. *)
EXTENDS MdBuf

CONSTANTS d1, d2, drv, c, z

MCProducers == {d1, d2}
MCOneProducer == {d1}
MCConsumers == {drv}
MCChunks == {c, z}
MCDoneChunks == {z}
=============================================================================
