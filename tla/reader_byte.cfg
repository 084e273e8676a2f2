SPECIFICATION ReaderSpec
CONSTANTS
    MaxBytes = 3
    MaxPolls = 3
INVARIANT OneByteTaken
