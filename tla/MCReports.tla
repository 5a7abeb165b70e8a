------------------------------ MODULE MCReports ------------------------------
EXTENDS Reports, TLC
CONSTANTS foo, bar, omp

\* foo holds a region, and so does omp, an OpenMP microtask; bar holds none.
MCHome == (0 :> foo) @@ (1 :> omp)
MCGroupOf == (0 :> 1) @@ (1 :> 2)
=============================================================================
