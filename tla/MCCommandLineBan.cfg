\* Lines of up to six bytes, texts of up to five, nicks of up to three letters.
SPECIFICATION Spec
CONSTANTS
    MaxText = 5
    MaxNick = 3
    MaxUint = 100
    MaxLine = 6
INVARIANT NicksBannable
