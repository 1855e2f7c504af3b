--------------------------- MODULE MCBootSequence ---------------------------
(* One board in every configuration that makes a difference to its boot. *)
EXTENDS BootSequence

Unicast == <<36, 10, 196, 0, 0, 1>>
SomePeerMacs ==
  {Unicast, <<0, 0, 0, 0, 0, 0>>, <<255, 255, 255, 255, 255, 255>>,
   <<1, 0, 94, 0, 0, 1>>}

NoneOrAll == {{}, Fallible}
=============================================================================
