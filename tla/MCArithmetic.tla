---------------------------- MODULE MCArithmetic ----------------------------
EXTENDS Arithmetic

\* Words at their edges, below p: 2^24 - 11.
MCOperands == {n \in {Val(FourWords(w, y, y, z)) : w \in {1, 53, 63}, y \in {0, 63}, z \in {0, 63}}
                     \cup {0, Prime - 1} : n < Prime}
\* Around what fills a block of 64 or 128 bytes, and the longest a kernel takes.
MCLengths == {0, 1, 32, 33, 55, 56, 63, 64, 65, 111, 112, 119, 120, 127, 128, 129, 209, 256, 257}
MCAddends == {1, 2, 40}
=============================================================================
