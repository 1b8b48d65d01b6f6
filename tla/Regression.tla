----------------------------- MODULE Regression -----------------------------
(***************************************************************************)
(* regression_analysis of src/analysis/analysis.c: the packet count of the *)
(* next block, predicted from a full queue of past counts by a straight    *)
(* line through the pairs (count of a block, count of the block after it). *)
(*                                                                         *)
(* The code computes with doubles.  Here every quotient is kept as an      *)
(* exact fraction: with n pairs, a deviation from the mean is multiplied   *)
(* by n, so the sums below are n * n times those of the code.              *)
(***************************************************************************)
EXTENDS MyQueue, FiniteSetsExt

(* The conversion of a double to int cuts towards zero; b > 0. *)
Truncate(a, b) == IF a >= 0 THEN a \div b ELSE -((-a) \div b)

(* n * (x - avg_x) and n * (y - avg_y) of the i-th pair. *)
DeviationX(q, n, sum_x, i) == n * GetQueueElem(q, i) - sum_x
DeviationY(q, n, sum_y, i) == n * GetQueueElem(q, i + 1) - sum_y

(* The line fitted to the pairs in `used`, its value at the last count.    *)
(* The averages are those of all n pairs.                                  *)
Predict(q, sum_x, sum_y, n, used) ==
    LET dx(i) == DeviationX(q, n, sum_x, i)
        dy(i) == DeviationY(q, n, sum_y, i)
        numerator   == MapThenSumSet(LAMBDA i : dx(i) * dy(i), used)
        denominator == MapThenSumSet(LAMBDA i : dx(i) * dx(i), used)
        last        == GetQueueLast(q)
    IN  IF denominator = 0
        THEN last
        ELSE Truncate(sum_y * denominator + numerator * (n * last - sum_x),
                      n * denominator)

(* A mutant of regression_analysis: the slope multiplies the last count,   *)
(* not its distance from the mean.                                         *)
regression_uncentred(q, sum_x, sum_y) ==
    LET n == GetQueueNum(q) - 1
        dx(i) == DeviationX(q, n, sum_x, i)
        dy(i) == DeviationY(q, n, sum_y, i)
        numerator   == MapThenSumSet(LAMBDA i : dx(i) * dy(i), 1 .. n - 1)
        denominator == MapThenSumSet(LAMBDA i : dx(i) * dx(i), 1 .. n - 1)
    IN  IF denominator = 0
        THEN GetQueueLast(q)
        ELSE Truncate(sum_y * denominator + numerator * n * GetQueueLast(q),
                      n * denominator)

(* regression_analysis: queue_num pairs, and a loop `for( i=1;             *)
(* i<queue_num; i++ )` that leaves the last of them out.                   *)
regression_analysis(q, sum_x, sum_y) ==
    LET n == GetQueueNum(q) - 1
    IN  IF n = 0 THEN -1 ELSE Predict(q, sum_x, sum_y, n, 1 .. n - 1)

(* The reference: the least squares line through all the pairs. *)
LeastSquares(q, sum_x, sum_y) ==
    LET n == GetQueueNum(q) - 1
    IN  Predict(q, sum_x, sum_y, n, 1 .. n)
=============================================================================
