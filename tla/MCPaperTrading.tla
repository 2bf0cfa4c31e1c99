--------------------------- MODULE MCPaperTrading ---------------------------
(* Instances of PaperTrading for TLC: paper.cfg.  Prices are multiples of  *)
(* 12, so that average prices and fees come out even.                      *)
EXTENDS PaperTrading

\* Checks overlap and are crossed by cancels in any mixture, by a reset alone:
\* the theorems cover the rest.
ResetCrossesAlone == "reset" \in crossed => crossed = {"reset"}
=============================================================================
