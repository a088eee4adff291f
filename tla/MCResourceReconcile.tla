------------------------- MODULE MCResourceReconcile -------------------------
(* Model-checking instance of ResourceReconcile: a manifest, a directory   *)
(* of two files and a chart, which shares an object with the manifest.     *)
EXTENDS ResourceReconcile, TLC

CONSTANTS man, dir, fileA, fileB, chart, o1, o2, oA, oB, shared

InOrder  == <<man, dir, fileA, fileB, chart>>
Entry    == man :> man @@ dir :> dir @@ fileA :> dir @@ fileB :> dir @@ chart :> chart
Manifest == man   :> <<{o1, shared}, {shared}>> @@ dir :> <<{}, {}>> @@
            fileA :> <<{oA}, {oA}>> @@ fileB :> <<{oB}, {oB}>> @@
            chart :> <<{o2, shared}, {shared}>>
=============================================================================
