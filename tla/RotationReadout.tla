--------------------------- MODULE RotationReadout ---------------------------
(***************************************************************************)
(* The position-bias readout (rotation.rs): a choice question is put to    *)
(* the inner classifier once per cyclic rotation of its candidate list,    *)
(* the reads are combined, and an early exit may stop the reading.         *)
(*                                                                         *)
(* Candidates are their declared positions 1 .. k.  A read gives every     *)
(* candidate a whole number of probability units that add up to Unit.      *)
(* The operators are exact: roots, logarithms and the Clopper-Pearson      *)
(* bound are compared by cross-multiplication.                             *)
(***************************************************************************)
EXTENDS Naturals, Sequences, FiniteSets, FiniteSetsExt

CONSTANT Unit    \* the probability mass of one read

\* rotations: the candidate at place i of the list rotated by `shift'.
At(k, shift, i) == ((shift + i - 1) % k) + 1

Place(k, shift, c) == CHOOSE i \in 1 .. k : At(k, shift, i) = c

\* The candidate a read votes for: max_by keeps the last of equal entries.
Vote(k, read, shift) ==
    CHOOSE c \in 1 .. k : \A d \in 1 .. k \ {c} :
        read[c] > read[d] \/ (read[c] = read[d] /\ Place(k, shift, c) > Place(k, shift, d))

Votes(k, reads) == [i \in DOMAIN reads |-> Vote(k, reads[i], i - 1)]

Wins(votes, c) == Cardinality({i \in DOMAIN votes : votes[i] = c})

\* The candidate with the most votes, and the most votes of anyone else.
Leader(k, votes) == CHOOSE c \in 1 .. k : \A d \in 1 .. k : Wins(votes, c) >= Wins(votes, d)
RunnerUp(k, votes) == Max({Wins(votes, d) : d \in (1 .. k \ {Leader(k, votes)}) \cup {0}})

Binomial(n, j) == Cardinality(kSubset(j, 1 .. n))

\* The probability, times k^n, that w or more of n reads agree when each does
\* with probability m / k (binom_cdf, betainc, betacf, ln_gamma).
UpperTail(w, n, m, k) == MapThenSumSet(LAMBDA j : Binomial(n, j) * m^j * (k - m)^(n - j), w .. n)

\* cp_lower_bound(w, n, alpha) > m / k: the bound is where the tail reaches alpha.
BoundAbove(w, n, m, k, alpha) == UpperTail(w, n, m, k) * alpha.of < alpha.part * k^n

\* Mutant: an unread block that can only draw level is certified against.
CertifiedAtDraw(k, votes, alpha) ==
    LET n == Len(votes)  m == k - n  w == Wins(votes, Leader(k, votes))
    IN  \/ m = 0
        \/ /\ w >= RunnerUp(k, votes) + m
           /\ BoundAbove(w, n, m, k, alpha) /\ 2 * w > n

\* certified: even if every unread rotation votes for the runner-up, and the
\* leader's share is bounded away from the unread share.
Certified(k, votes, alpha) ==
    LET n == Len(votes)  m == k - n  w == Wins(votes, Leader(k, votes))
    IN  \/ m = 0
        \/ /\ w > RunnerUp(k, votes) + m
           /\ BoundAbove(w, n, m, k, alpha) /\ 2 * w > n

\* decide leaves its loop: all rotations read, or an early exit is configured
\* (with_early_exit refuses a floor of zero), its floor reached and certified.
Exits(k, reads, early) ==
    \/ Len(reads) = k
    \/ early.on /\ Len(reads) >= early.k_min /\ Certified(k, Votes(k, reads), early.alpha)

-----------------------------------------------------------------------------
(* The combination: each read is divided by the candidate's geometric mean *)
(* over the reads, then the reads are averaged.                            *)

MassIn(reads, c) == MapThenSumSet(LAMBDA i : reads[i][c], DOMAIN reads)
Everywhere(reads, c) == \A i \in DOMAIN reads : reads[i][c] > 0

\* The geometric mean to the power Len(reads); a candidate without mass in some
\* read has a mean of zero and is left uncorrected (divided by one).
Prior(reads, c) ==
    LET prod[i \in 0 .. Len(reads)] == IF i = 0 THEN 1 ELSE prod[i - 1] * reads[i][c]
    IN  IF Everywhere(reads, c) THEN prod[Len(reads)] ELSE Unit^Len(reads)

\* Whether candidate c ends with more mass than d.  In log space the corrected
\* reads of a candidate seen everywhere multiply to one whatever they were, and
\* those of any other candidate to zero.
Ahead(combine, reads, c, d) ==
    IF combine = "LogMean" THEN Everywhere(reads, c) /\ ~Everywhere(reads, d)
    ELSE MassIn(reads, c)^Len(reads) * Prior(reads, d) > MassIn(reads, d)^Len(reads) * Prior(reads, c)

\* normalize refuses a combination without mass.
Collapsed(combine, k, reads) == combine = "LogMean" /\ \A c \in 1 .. k : ~Everywhere(reads, c)

\* The candidates the answer may name: those with the most mass.
Combined(combine, k, reads) ==
    IF Collapsed(combine, k, reads) THEN {}
    ELSE {c \in 1 .. k : \A d \in 1 .. k : ~Ahead(combine, reads, d, c)}
==============================================================================
