SPECIFICATION Spec
CONSTANTS
    mac1 = mac1
    mac2 = mac2
    vdom1 = vdom1
    vdom2 = vdom2
    name1 = name1
    Mac = {mac1, mac2}
    Target <- TwoVdoms
    Owner = vdom1
    NoMac = NoMac
    NoAnswer = NoAnswer
    Off = Off
    MaxHostChange = 2
    MaxLocateFault = 1
    File = {file1, file2}
    Content = {body1, body2}
    Broken = Broken
    NoRow = NoRow
    NoView = NoView
    MaxWrites = 2
    MaxMishap = 1
    Name = {name1}
    Addr = {addr1, addr2}
    ClassOf <- ThirdOfIt
    NoEntry = NoEntry
    MaxSourceChange = 2
    MaxLookupFault = 1
    Host = {host1}
    Label = {label1, label2, NoName}
    Reader = {reader1, reader2}
    NoName = NoName
    MaxRename = 2
    MaxDnsFault = 2
INVARIANTS
    RunningIsTrue
CHECK_DEADLOCK FALSE
