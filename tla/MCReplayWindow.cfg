\* Words of 3 bits, so a window of 6, and counters to 13: a jump may be
\* shorter than a word, between one word and two, exactly one or two words,
\* or longer than the window, and the window may slide over twice its size.
SPECIFICATION Spec
CONSTANTS
    WordBits = 3
    MaxCounter = 13
INVARIANTS
    TypeOK
    BitmapIsHistory
PROPERTIES
    ImplementsAntiReplay
