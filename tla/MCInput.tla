------------------------------ MODULE MCInput ------------------------------
EXTENDS Input

\* Reports with and without bit 3 in their movement bytes, in both directions;
\* one with movement bytes that are Shift codes; one beyond eight bits; one
\* whose overflow bits make its first byte 0xFA.
MCReports == {<<8, 3, 0>>, <<24, 251, 8>>, <<40, 42, 246>>, <<8, 0, 200>>,
              <<250, 12, 1>>}
=============================================================================
