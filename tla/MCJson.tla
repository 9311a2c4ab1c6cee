------------------------------- MODULE MCJson -------------------------------
\* Json for TLC.  The characters are the ends of the ranges that string.c tells
\* apart, the bytes the ends of the classes of its table.
EXTENDS Json

MCKeys == <<"a", "b">>

MCCharacters ==
  {0, 8, 9, 10, 12, 13, 31, 32, 34, 47, 92, 127, 128, 2047, 2048, 55295, 57344,
   65533, 65535, 65536, 66559, 66560, 131071, 131072, 196607, 196608, 1048575, 1048576, 1114111}

MCBytes ==
  {0, 127, 128, 143, 144, 159, 160, 191, 192, 193, 194, 223, 224, 225, 236, 237, 238, 239, 240,
   241, 243, 244, 245, 255}

MCContinuations == {0, 127, 128, 143, 144, 159, 160, 191, 192}
=============================================================================
