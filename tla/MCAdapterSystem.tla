-------------------------- MODULE MCAdapterSystem --------------------------
EXTENDS AdapterSystem

MCAddr == [ client   |-> [ ip |-> 11, port |-> 21 ],
            server   |-> [ ip |-> 12, port |-> 22 ],
            stranger |-> [ ip |-> 13, port |-> 23 ] ]

MCEth == [ client |-> 1, server |-> 2, stranger |-> 3 ]

\* A SYN, the answer to it, a byte of data, a FIN, and a RST with a SYN.
Header(syn, ack, fin, rst) ==
    [ NewTCPHeader EXCEPT !.seqno = 17, !.ackno = IF ack THEN 19 ELSE 0, !.win = 3,
                          !.syn = syn, !.ack = ack, !.fin = fin, !.rst = rst ]

MCSegments ==
    { [ header |-> Header(TRUE, FALSE, FALSE, FALSE), payload |-> <<>> ],
      [ header |-> Header(TRUE, TRUE, FALSE, FALSE), payload |-> <<>> ],
      [ header |-> Header(FALSE, TRUE, FALSE, FALSE), payload |-> <<5>> ],
      [ header |-> Header(FALSE, TRUE, TRUE, FALSE), payload |-> <<>> ],
      [ header |-> Header(TRUE, FALSE, FALSE, TRUE), payload |-> <<>> ] }

MCDamages == 0..(W - 1)

=============================================================================
