----------------------------- MODULE MCZipSlots ------------------------------
EXTENDS ZipSlots

MCArchive == {"A", "B", "C"}
MCFloppies == [A |-> <<"d1", "d2", "d3">>, B |-> <<"d1">>, C |-> << >>]
MCHdfs == [A |-> << >>, B |-> << >>, C |-> <<"h1">>]
=============================================================================
