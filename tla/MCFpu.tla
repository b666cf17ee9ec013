-------------------------------- MODULE MCFpu --------------------------------
(* Instance of Fpu for TLC: buffers of 64 columns, lines of 16, words of 4. *)
EXTENDS FpuFrame

Image(width, height) ==
  [image_width |-> width, image_height |-> height, start_address |-> 7, result_address |-> 5]

MCImages == {Image(4, 4), Image(36, 3), Image(52, 2)}
WideImages == {Image(20, 3)}

(* The images of the first are supported, and that of the second is not.   *)
ASSUME MCSupported ==
  /\ \A i \in MCImages : Supported(i)
  /\ \A i \in WideImages : ~Supported(i)
=============================================================================
