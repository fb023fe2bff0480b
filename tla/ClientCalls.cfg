\* One client; its calls may fall between the poll and the handlers.
CONSTANT InBatch = TRUE
SPECIFICATION FairSpec
INVARIANTS TypeOK OneConnection TimerStopped
PROPERTIES StartAnswers GoneGoesDown
\* The destructor is the end of the program, and so is a failed assert.
CHECK_DEADLOCK FALSE
