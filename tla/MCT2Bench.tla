------------------------------ MODULE MCT2Bench ------------------------------
(* Two boards and a Linux node.  The tests share one app, in two           *)
(* configurations; between them they have a Linux and an ESP support role, *)
(* one and two reporters, and a role on any board.  Makes by hand set      *)
(* NO_PING, which a test asks for too, and HW_RESTART, which arms.         *)
EXTENDS T2Bench

CONSTANTS b0, b1, linux, any, relay, NP, HR, nofile

Role_(dev, app, opts, marker, reporter) ==
  [dev |-> dev, app |-> app, vars |-> opts, marker |-> marker, reporter |-> reporter]

MultiTest == [slug |-> "multi", blocked |-> FALSE, roles |->
  <<Role_(linux, linux, {}, FALSE, FALSE), Role_(b1, relay, {}, FALSE, TRUE),
    Role_(any, relay, {}, FALSE, TRUE)>>]
PairTest == [slug |-> "pair", blocked |-> FALSE, roles |->
  <<Role_(b0, relay, {NP}, TRUE, FALSE), Role_(any, relay, {}, FALSE, TRUE)>>]
SoloTest(slug, opts) == [slug |-> slug, blocked |-> FALSE, roles |->
  <<Role_(b1, relay, opts, FALSE, TRUE)>>]

MCSuite == <<MultiTest, PairTest>>
StaleSuite == <<SoloTest("one", {}), SoloTest("two", {NP}), SoloTest("three", {})>>
=============================================================================
