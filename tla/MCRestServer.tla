--------------------------- MODULE MCRestServer ---------------------------
(***************************************************************************)
(* Two requests with short bodies to one path that the tracer logs.        *)
(***************************************************************************)
EXTENDS RestServer

CONSTANT u1

MCProfile == [excluded : {FALSE}, traced : {TRUE}, url : {u1}, body : {"small"},
              cacheable : {FALSE}]
=============================================================================
