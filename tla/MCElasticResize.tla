-------------------------- MODULE MCElasticResize --------------------------
(* Instances of ElasticResize for TLC: two ranks, one of which leads, so     *)
(* that they are not interchangeable.                                        *)
EXTENDS ElasticResize
=============================================================================
