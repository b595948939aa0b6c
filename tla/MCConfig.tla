------------------------------ MODULE MCConfig ------------------------------
(***************************************************************************)
(* Config for TLC: three keys, one of them a number, and files with        *)
(* comments, repeated keys, a key without value, a value that is no        *)
(* number, a value that contains '=' and a last line without newline.      *)
(***************************************************************************)
EXTENDS Config

CONSTANTS port, host, pw, rem, n1, n2, s1, s2

Line(parts) == [skip |-> FALSE, parts |-> parts, ended |-> TRUE]
Comment(parts) == [skip |-> TRUE, parts |-> parts, ended |-> TRUE]
Cut(parts) == [skip |-> FALSE, parts |-> parts, ended |-> FALSE]

MCFiles ==
  { << Line(<<rem>>), Line(<<port, n1>>), Line(<<host, s1>>), Line(<<pw, s1, s2>>) >>,
    << Line(<<port, n1>>), Comment(<<host, s1>>), Line(<<host, s2>>), Line(<<port, n2>>), Cut(<<pw, s2>>) >>,
    << Line(<<Empty, s1>>), Line(<<host>>), Line(<<port, s2>>), Line(<<pw, s2>>) >> }

MCOrder == <<port, host, pw>>
=============================================================================
