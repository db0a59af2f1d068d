------------------------------ MODULE BiasFilter ------------------------------
(***************************************************************************)
(* The filters of the accelerometer bias and of the leg velocity bias: the *)
(* time of the state and its variance; the state itself is a number.  The  *)
(* unit of a variance is what the random walk (sigma2) adds in a tick.     *)
(* Both classes of the code do the same; BiasFilter::Update is never       *)
(* called.                                                                 *)
(***************************************************************************)
EXTENDS Integers

StatePack(time, var) == [time |-> time, var |-> var]

\* Mutated: the state is moved, its variance is not.
PredictionCertain(f, t) == StatePack(t, f.var)

\* Mutated: with the times the other way round.
PredictionBackwards(f, t) == StatePack(t, f.var + (f.time - t))

Prediction(f, t) == StatePack(t, f.var + (t - f.time))

UpdateByEstimator(f, est) == est
===============================================================================
