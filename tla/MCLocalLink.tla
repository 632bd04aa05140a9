---------------------------- MODULE MCLocalLink -----------------------------
(* The coordinator with a board of two beds.                                *)
EXTENDS LocalLink

CONSTANTS single, triple

MCBoth == BOOLEAN
MCNever == {FALSE}
MCBed == {single, triple}
MCWorth(hits) == hits[single] + 3 * hits[triple]
=============================================================================
