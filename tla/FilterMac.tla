------------------------------ MODULE FilterMac ------------------------------
(***************************************************************************)
(* FPU/FilterMAC.sv: nine products, an adder tree and a clamp, each at its *)
(* width.  The five registers between them are the five places of mac in   *)
(* FpuBuffers.                                                             *)
(***************************************************************************)
EXTENDS Integers

Pixel == 0..255
Coefficient == -128..127

(* A signed register of 2 * half values: what does not fit wraps.          *)
Signed(n, half) == IF -half <= n /\ n < half THEN n ELSE ((n + half) % (2 * half)) - half

Product(n) == Signed(n, 32768)          \* mult_res: 16 bits
Sum(n) == Signed(n, 524288)             \* add_res1 .. add_res7: 20 bits

(* Sign bit, any of bits 18..8, and the low byte.                          *)
Saturate(n) == IF n < 0 THEN 0 ELSE IF n \div 256 # 0 THEN 255 ELSE n % 256

MultRes(pixel, filter) == [i \in 0..8 |-> Product(pixel[i] * filter[i])]

AddRes(m) ==
  Sum(Sum(Sum(m[0] + m[1]) + Sum(m[2] + m[3]))
      + Sum(Sum(m[4] + m[5]) + Sum(m[6] + m[7] + m[8])))

ResultPixel(pixel, filter) == Saturate(AddRes(MultRes(pixel, filter)))

(* The reference of the test bench (calc_MAC in FPU_tb.sv).                *)
Clamp(n) == IF n < 0 THEN 0 ELSE IF n > 255 THEN 255 ELSE n

Convolution(pixel, filter) ==
  LET m(i) == pixel[i] * filter[i]
  IN  m(0) + m(1) + m(2) + m(3) + m(4) + m(5) + m(6) + m(7) + m(8)
=============================================================================
