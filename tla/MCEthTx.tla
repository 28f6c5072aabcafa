------------------------------ MODULE MCEthTx ------------------------------
EXTENDS EthTx

\* With buffers of two bytes: frames that fit in a buffer, fill one or two of
\* them exactly, need all three, and cross the boundary within a pbuf and
\* between two pbufs.
MCChains == {<<1>>, <<2>>, <<3>>, <<2, 1>>, <<2, 0, 2>>, <<1, 4>>}
=============================================================================
