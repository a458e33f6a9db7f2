--------------------------- MODULE MCUploadSession ---------------------------
(* Small instances of UploadSession.                                        *)
EXTENDS UploadSession, TLC

CONSTANTS b1, b2

\* The lists of up to as many members as there are blocks, up to order: empty, short,
\* complete, and with a block named twice in place of another.
MCLists == {<<>>, <<b1>>, <<b2>>, <<b1, b2>>, <<b1, b1>>, <<b2, b2>>}
=============================================================================
