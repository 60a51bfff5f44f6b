---------------------------- MODULE MCOtaDevice ----------------------------
(* OtaDevice for TLC: a slot of three cells, chunks of up to two bytes.    *)
EXTENDS OtaDeviceStaging

CONSTANTS a, ff   \* a byte of firmware, and the value of an erased cell

MCByte == {a, ff}

\* A two-byte image, a three-byte image with an erased-looking byte in it, and
\* the CRC of an image that does not fit.
MCCrcs == {<<a, a>>, <<a, ff, a>>, <<a, a, a, a>>}
=============================================================================
