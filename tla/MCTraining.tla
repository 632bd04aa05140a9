----------------------------- MODULE MCTraining -----------------------------
(* The training session with two beds of different worth.                  *)
EXTENDS Training

CONSTANTS single, triple

MCBed == {single, triple}

\* The points of a visit: number times multiplier, over its darts.
MCWorth(hits) == hits[single] + 3 * hits[triple]
=============================================================================
