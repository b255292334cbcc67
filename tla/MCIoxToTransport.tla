-------------------------- MODULE MCIoxToTransport --------------------------
\* Small instances of IoxToTransport for TLC.
EXTENDS IoxToTransport

CONSTANTS s1, s2, m1, m2, m3, pcie, udp

\* Every message is of the first service.
FirstService == [m \in Messages |-> s1]

NoneOrOne == {<<>>, <<pcie>>, <<udp>>}
OneOfEach == {<<pcie, udp>>}
=============================================================================
