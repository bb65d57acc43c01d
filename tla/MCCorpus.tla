------------------------------ MODULE MCCorpus ------------------------------
(* An instance of Corpus for TLC: the corpora of the four versions and of  *)
(* a version the generator does not know.                                  *)
EXTENDS Corpus, SampleValues

MCVersions == Versions \cup {"9P1999"}

MCFieldsOf(ver, d, name) == MessageValue(ver, d, name, 1)
=============================================================================
