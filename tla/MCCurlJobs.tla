------------------------------ MODULE MCCurlJobs ------------------------------
(* CurlJobs for TLC: jobs and URLs are interchangeable model values.       *)
EXTENDS CurlJobs, TLC

Symmetric == Permutations(Jobs) \cup Permutations(URLs)
=============================================================================
