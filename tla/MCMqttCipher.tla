---------------------------- MODULE MCMqttCipher ----------------------------
(* A small instance of MqttCipher for TLC: blocks of two bytes, keys of     *)
(* four digits, two of which start alike.                                   *)
EXTENDS MqttCipher

TestKeys == {<<0, 0, 0, 0>>, <<0, 0, 1, 1>>, <<1, 0, 0, 0>>}
=============================================================================
