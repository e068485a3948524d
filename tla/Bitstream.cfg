\* Units of 2 to 812 bytes; the longest no longer fits with parameter sets.
CONSTANTS
    Units <- MCUnits
    SeqHeaders <- MCSeqHeaders
    Formats = {"long", "short", "mixed", "avcc"}
    MaxPayload = 830
SPECIFICATION Spec
INVARIANTS CacheNewest Faithful SelfContained
