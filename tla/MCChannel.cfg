SPECIFICATION ChannelSpec
CONSTANTS
    MaxSpools = 3
    MaxMessages = 2
CHECK_DEADLOCK FALSE
INVARIANT SpoolsShareTheMessages
PROPERTY EventLoopsEnd
