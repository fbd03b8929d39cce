-------------------------- MODULE OrderStatistics --------------------------
(***************************************************************************)
(* np.percentile and np.median, which the wait-time engine and the         *)
(* forecast use, for the values of a function with a finite domain (a      *)
(* sequence, or a series by bucket).                                       *)
(***************************************************************************)
EXTENDS Integers, FiniteSets

(* The k-th smallest of the values of f. *)
Kth(f, k) ==
    CHOOSE v \in {f[x] : x \in DOMAIN f} :
        /\ Cardinality({x \in DOMAIN f : f[x] < v}) < k
        /\ Cardinality({x \in DOMAIN f : f[x] <= v}) >= k

(* The percentile in tenths: ten times the interpolation between the       *)
(* neighbours of its place, an integer.                                    *)
Quantile(f, tenths) ==
    LET n == Cardinality(DOMAIN f)
        i == 1 + (((n - 1) * tenths) \div 10)
        r == ((n - 1) * tenths) % 10
        low == Kth(f, i)
        high == Kth(f, IF i < n THEN i + 1 ELSE n)
    IN  10 * low + r * (high - low)
============================================================================
