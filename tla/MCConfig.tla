------------------------------ MODULE MCConfig ------------------------------
(* Small instances of Config for TLC.                                      *)
EXTENDS Config, TLC

CONSTANTS s, x, y, v

(* A variable assigned twice, a section taken up again, a comment and an   *)
(* error before the end, as in src/tests/config.conf.                      *)
SomeFiles ==
    {NULL,
     <<Assignment(x, v), Comment, Assignment(x, Empty), Heading(s), Assignment(x, v)>>,
     <<Heading(s), Assignment(x, v), Heading(Default), Assignment(x, Empty),
       Heading(s), Broken, Assignment(x, Empty)>>}

Symmetry == Permutations(Addrs)
=============================================================================
